---- MODULE Spec2Model ----
(***************************************************************************)
(* Webhook normalization engine of SuperSDR: the three provider adapters   *)
(* (Meta Cloud API, Evolution API, Z-API) and the AdapterRegistry that     *)
(* detects the adapter of a payload and dispatches to it.                  *)
(*                                                                         *)
(* Payloads, results and thrown exceptions are JavaScript values.  Every   *)
(* value is a record tagged by t:                                          *)
(*   undef, null, bool (b), num (neg, hi, lo), nan, str (s), arr (a),      *)
(*   obj (o), err (m: an Error instance and its message), fn,              *)
(*   throw (x: an abrupt completion carrying the thrown value).            *)
(* A string is a sequence of tokens; digits, "+" and "@" are always        *)
(* tokens of their own, a word may be one token.  A number is the integer  *)
(* hi * 10^6 + lo with a sign, so that millisecond timestamps fit.         *)
(***************************************************************************)
EXTENDS Integers, Sequences, FiniteSets

VARIABLES
  adapters,   \* AdapterRegistry.adapters: the Map, as its entries in iteration order
  op,         \* the last operation called
  target,     \* the adapter (implementation) or provider the operation was called with
  arg,        \* the payload the operation was called with
  ret,        \* what the operation returned, or the throw that left it
  logged,     \* what the operation wrote to the console
  deliveries, \* the handleWebhook calls in flight: body, position, result, response
  database    \* InMemoryClient.data: the rows of each table, in insertion order

vars == <<adapters, op, target, arg, ret, logged, deliveries, database>>

----------------------------------------------------------------------------
(* JavaScript values *)

Undef == [t |-> "undef"]
Null == [t |-> "null"]
NaN == [t |-> "nan"]
Absent == [t |-> "absent"]
Bool(b) == [t |-> "bool", b |-> b]
Str(s) == [t |-> "str", s |-> s]
Word(w) == Str(<<w>>)
EmptyStr == Str(<<>>)
BigNum(neg, hi, lo) == [t |-> "num", neg |-> neg, hi |-> hi, lo |-> lo]
Num(n) == IF n < 0 THEN BigNum(TRUE, 0, 0 - n) ELSE BigNum(FALSE, 0, n)
Arr(a) == [t |-> "arr", a |-> a]
Obj(o) == [t |-> "obj", o |-> o]
ErrorObj(m) == [t |-> "err", m |-> m]
Throw(x) == [t |-> "throw", x |-> x]
TypeError(what) == Throw(ErrorObj(Str(<<"TypeError", what>>)))

\* An object literal: the keys whose value is Absent are left out.
MkObj(rec) == Obj([k \in {j \in DOMAIN rec : rec[j] # Absent} |-> rec[k]])
EmptyObj == Obj([k \in {} |-> Undef])

IsThrow(x) == x.t = "throw"
IsNullish(x) == x.t \in {"undef", "null"}
IsZero(x) == x.t = "num" /\ x.hi = 0 /\ x.lo = 0
IsPositive(x) == x.t = "num" /\ ~x.neg /\ ~IsZero(x)

TypeOf(x) ==
  CASE x.t = "undef" -> "undefined"
    [] x.t = "bool" -> "boolean"
    [] x.t \in {"num", "nan"} -> "number"
    [] x.t = "str" -> "string"
    [] x.t = "fn" -> "function"
    [] OTHER -> "object"

\* ToBoolean
Truthy(x) ==
  CASE x.t \in {"undef", "null", "nan"} -> FALSE
    [] x.t = "bool" -> x.b
    [] x.t = "num" -> ~IsZero(x)
    [] x.t = "str" -> x.s # <<>>
    [] OTHER -> TRUE

\* a || b
Or(a, b) == IF Truthy(a) THEN a ELSE b

\* x.k ; reading a property of undefined or null throws a TypeError
Prop(x, k) ==
  CASE IsThrow(x) -> x
    [] IsNullish(x) -> TypeError(k)
    [] x.t = "obj" -> IF k \in DOMAIN x.o THEN x.o[k] ELSE Undef
    [] x.t = "arr" -> IF k = "length" THEN Num(Len(x.a)) ELSE Undef
    [] x.t = "str" -> IF k = "length" THEN Num(Len(x.s)) ELSE Undef
    [] OTHER -> Undef

\* x?.k
OptProp(x, k) == IF IsNullish(x) THEN Undef ELSE Prop(x, k)

\* x[i], i a 0-based index
Idx(x, i) ==
  CASE IsThrow(x) -> x
    [] IsNullish(x) -> TypeError("index")
    [] x.t = "arr" -> IF i < Len(x.a) THEN x.a[i + 1] ELSE Undef
    [] x.t = "str" -> IF i < Len(x.s) THEN Str(<<x.s[i + 1]>>) ELSE Undef
    [] OTHER -> Undef

\* x?.[i]
OptIdx(x, i) == IF IsNullish(x) THEN Undef ELSE Idx(x, i)

\* The first abrupt completion among the values of a sequence of expressions
\* evaluated left to right; Undef when none of them threw.
FirstThrow(vals) ==
  IF \E i \in DOMAIN vals : IsThrow(vals[i])
  THEN vals[CHOOSE i \in DOMAIN vals :
              IsThrow(vals[i]) /\ \A j \in DOMAIN vals : j < i => ~IsThrow(vals[j])]
  ELSE Undef

Digits == <<"0", "1", "2", "3", "4", "5", "6", "7", "8", "9">>
IsDigit(c) == \E i \in DOMAIN Digits : Digits[i] = c
DigitVal(c) == (CHOOSE i \in DOMAIN Digits : Digits[i] = c) - 1

\* x * 10 + d on the two-limb representation
MulAdd10(x, d) ==
  LET l == x.lo * 10 + d
  IN BigNum(x.neg, x.hi * 10 + (l \div 1000000), l % 1000000)

RECURSIVE ParseDigits(_, _, _)
\* the leading run of digits of s from position i on, accumulated into acc
ParseDigits(s, i, acc) ==
  IF i > Len(s) \/ ~IsDigit(s[i]) THEN acc
  ELSE ParseDigits(s, i + 1, MulAdd10(acc, DigitVal(s[i])))

\* parseInt(x): the leading integer of ToString(x); NaN when there is none
ParseInt(x) ==
  CASE x.t = "num" -> x
    [] x.t = "str" ->
         LET signed == x.s # <<>> /\ x.s[1] \in {"+", "-"}
             from == IF signed THEN 2 ELSE 1
             mag == ParseDigits(x.s, from, Num(0))
         IN IF from > Len(x.s) \/ ~IsDigit(x.s[from]) THEN NaN
            ELSE IF signed /\ x.s[1] = "-" /\ ~IsZero(mag)
                 THEN BigNum(TRUE, mag.hi, mag.lo) ELSE mag
    [] OTHER -> NaN

\* x * 1000
Times1000(x) ==
  IF x.t # "num" THEN NaN
  ELSE LET l == x.lo * 1000
       IN BigNum(x.neg, x.hi * 1000 + (l \div 1000000), l % 1000000)

\* ToNumber, for the operands of a relational comparison
ToNumber(x) ==
  CASE x.t = "num" -> x
    [] x.t = "null" -> Num(0)
    [] x.t = "bool" -> IF x.b THEN Num(1) ELSE Num(0)
    [] x.t = "str" ->
         IF x.s = <<>> THEN Num(0)
         ELSE IF \A i \in DOMAIN x.s : IsDigit(x.s[i]) THEN ParseInt(x) ELSE NaN
    [] x.t = "arr" -> IF x.a = <<>> THEN Num(0) ELSE NaN
    [] OTHER -> NaN

\* x > 0
GtZero(x) == IsPositive(ToNumber(x))

\* x < hi * 10^6 (the bound a number of whole millions)
LessThanMillions(x, hi) ==
  LET n == ToNumber(x) IN n.t = "num" /\ (n.neg \/ n.hi < hi)

\* x === y for primitives (NaN is equal to nothing)
StrictEq(x, y) == x.t # "nan" /\ x = y

\* String(x), as tokens
ToStr(x) ==
  CASE x.t = "str" -> x.s
    [] x.t = "undef" -> <<"undefined">>
    [] x.t = "null" -> <<"null">>
    [] x.t = "nan" -> <<"NaN">>
    [] x.t = "bool" -> IF x.b THEN <<"true">> ELSE <<"false">>
    [] x.t = "num" -> <<"<number>">>
    [] x.t = "arr" -> <<"<array>">>
    [] OTHER -> <<"[object Object]">>

\* Property names every object literal inherits from Object.prototype
ObjectPrototypeKeys == {"constructor", "toString", "valueOf", "hasOwnProperty"}

\* map[key] || dflt, for a lookup table written as an object literal
Lookup(map, key, dflt) ==
  LET k == ToStr(key)
  IN IF Len(k) = 1 /\ k[1] \in DOMAIN map THEN Word(map[k[1]])
     ELSE IF Len(k) = 1 /\ k[1] \in ObjectPrototypeKeys THEN [t |-> "fn"]
     ELSE dflt

\* Array.isArray, and each adapter's private isObject type guard
IsArray(x) == x.t = "arr"
IsObject(value) == TypeOf(value) = "object" /\ value # Null /\ ~IsArray(value)

----------------------------------------------------------------------------
(* BaseWebhookAdapter *)

\* Tokens that consist of ASCII letters and dots only, the class [a-z.] under /i
LetterDotTokens ==
  {"a", "b", "s", "c", "us", "net", ".", "s.whatsapp.net", "c.us", "g.us"}

RECURSIVE SelectTokens(_, _)
\* s.replace(/[^\d+]/g, ''): the tokens of s that are digits or "+"
SelectTokens(s, i) ==
  IF i > Len(s) THEN <<>>
  ELSE (IF IsDigit(s[i]) \/ s[i] = "+" THEN <<s[i]>> ELSE <<>>)
         \o SelectTokens(s, i + 1)

\* s.replace(/@[a-z.]+$/i, ''): the match starts at an "@" that is followed,
\* up to the end, by one or more letters and dots
StripSuffix(s) ==
  LET starts == {i \in DOMAIN s :
                   /\ s[i] = "@"
                   /\ i < Len(s)
                   /\ \A j \in (i + 1)..Len(s) : s[j] \in LetterDotTokens}
  IN IF starts = {} THEN s
     ELSE SubSeq(s, 1, (CHOOSE i \in starts : \A j \in starts : i <= j) - 1)

\* s.replace(/^\+/, '')
StripPlus(s) == IF s # <<>> /\ s[1] = "+" THEN Tail(s) ELSE s

\* BaseWebhookAdapter.normalizePhoneNumber
NormalizePhoneNumber(phone) ==
  IF IsThrow(phone) THEN phone
  ELSE IF ~Truthy(phone) THEN EmptyStr
  ELSE IF phone.t # "str" THEN TypeError("phone.replace is not a function")
  ELSE Str(StripPlus(SelectTokens(StripSuffix(phone.s), 1)))

\* BaseWebhookAdapter.generateId: `msg_${Date.now()}_${random suffix}`
GenerateId(now, rnd) == Str(<<"msg_", now, "_", rnd>>)

\* createError that also attaches an empty message
CreateError_withMessage(code, message, details) ==
  Obj([success |-> Bool(FALSE), message |-> EmptyObj,
       error |-> Obj([code |-> Word(code), message |-> message, details |-> details])])

\* BaseWebhookAdapter.createError
CreateError(code, message, details) ==
  Obj([success |-> Bool(FALSE),
       error |-> Obj([code |-> Word(code), message |-> message, details |-> details])])

\* BaseWebhookAdapter.createSuccess
CreateSuccess(message) == Obj([success |-> Bool(TRUE), message |-> message])

\* error instanceof Error ? error.message : error
ErrorDetails(error) == IF error.t = "err" THEN error.m ELSE error

----------------------------------------------------------------------------
(* MetaAdapter *)

WABA == Word("whatsapp_business_account")

\* canHandle without its isObject guard: a read of null.object throws
MetaCanHandle_noGuard(payload) ==
  LET object == Prop(payload, "object")
      entry == Prop(payload, "entry")
  IN IF IsThrow(object) THEN object
     ELSE Bool(StrictEq(object, WABA) /\ IsArray(entry) /\ Len(entry.a) > 0)

\* MetaAdapter.canHandle
MetaCanHandle(payload) ==
  IF ~IsObject(payload) THEN Bool(FALSE)
  ELSE LET object == Prop(payload, "object")
           entry == Prop(payload, "entry")
       IN Bool(StrictEq(object, WABA) /\ IsArray(entry) /\ Len(entry.a) > 0)

\* the value of the first change of the last entry
MetaFirstValueOpt_lastEntry(p) ==
  LET entries == Prop(p, "entry")
  IN OptProp(OptIdx(OptProp(Idx(entries, Len(entries.a) - 1), "changes"), 0), "value")

\* p.entry[0]?.changes?.[0]?.value, as validate reads it
MetaFirstValueOpt(p) ==
  OptProp(OptIdx(OptProp(Idx(Prop(p, "entry"), 0), "changes"), 0), "value")

\* MetaAdapter.validate
MetaValidate(payload) ==
  LET handles == MetaCanHandle(payload)
  IN IF IsThrow(handles) THEN handles
     ELSE IF ~Truthy(handles) THEN Bool(FALSE)
     ELSE LET value == MetaFirstValueOpt(payload)
              found == Or(OptProp(OptProp(value, "messages"), "length"),
                          OptProp(OptProp(value, "statuses"), "length"))
          IN IF IsThrow(found) THEN Bool(FALSE) ELSE Bool(Truthy(found))

\* MetaAdapter.mapMessageType (its result is computed and not used)
MetaMapMessageType(metaType) ==
  Lookup([text |-> "text", image |-> "image", audio |-> "audio", video |-> "video",
          document |-> "document", location |-> "location", contacts |-> "contact",
          sticker |-> "sticker", reaction |-> "reaction"], metaType, Word("unknown"))

\* MetaAdapter.mapStatus
MetaMapStatus(metaStatus) ==
  Lookup([sent |-> "sent", delivered |-> "delivered", read |-> "read",
          failed |-> "failed"], metaStatus, Word("pending"))

\* MetaAdapter.extractContent
MetaExtractContent(msg) ==
  LET type == Prop(msg, "type")
      media(k) == Prop(msg, k)
  IN CASE IsThrow(type) -> type
       [] StrictEq(type, Word("text")) ->
            Obj([type |-> Word("text"),
                 text |-> Or(OptProp(media("text"), "body"), EmptyStr)])
       [] StrictEq(type, Word("image")) ->
            Obj([type |-> Word("image"),
                 mediaUrl |-> OptProp(media("image"), "id"),
                 mimeType |-> OptProp(media("image"), "mime_type"),
                 caption |-> OptProp(media("image"), "caption")])
       [] StrictEq(type, Word("audio")) ->
            Obj([type |-> Word("audio"),
                 mediaUrl |-> OptProp(media("audio"), "id"),
                 mimeType |-> OptProp(media("audio"), "mime_type")])
       [] StrictEq(type, Word("video")) ->
            Obj([type |-> Word("video"),
                 mediaUrl |-> OptProp(media("video"), "id"),
                 mimeType |-> OptProp(media("video"), "mime_type"),
                 caption |-> OptProp(media("video"), "caption")])
       [] StrictEq(type, Word("document")) ->
            Obj([type |-> Word("document"),
                 mediaUrl |-> OptProp(media("document"), "id"),
                 mimeType |-> OptProp(media("document"), "mime_type"),
                 fileName |-> OptProp(media("document"), "filename"),
                 caption |-> OptProp(media("document"), "caption")])
       [] StrictEq(type, Word("location")) ->
            Obj([type |-> Word("location"),
                 location |->
                   Obj([latitude |-> Or(OptProp(media("location"), "latitude"), Num(0)),
                        longitude |-> Or(OptProp(media("location"), "longitude"), Num(0)),
                        name |-> OptProp(media("location"), "name"),
                        address |-> OptProp(media("location"), "address")])])
       [] OTHER ->
            Obj([type |-> Word("unknown"),
                 text |-> Str(<<"Tipo nao suportado: ">> \o ToStr(type))])

\* the branch of a received message built as the branch of a status update is
MetaInbound_asStatus(payload, id, entry, value, metadata) ==
  LET status == Idx(Prop(value, "messages"), 0)
      externalId == Prop(status, "id")
      instanceId == Prop(metadata, "phone_number_id")
      fromPhone == NormalizePhoneNumber(Prop(metadata, "display_phone_number"))
      toPhone == NormalizePhoneNumber(Prop(status, "from"))
      thrown == FirstThrow(<<externalId, instanceId, fromPhone, toPhone>>)
  IN IF IsThrow(thrown) THEN thrown
     ELSE CreateSuccess(Obj([
            id |-> id,
            externalId |-> externalId,
            provider |-> Word("meta"),
            instanceId |-> instanceId,
            timestamp |-> Times1000(ParseInt(Prop(status, "timestamp"))),
            direction |-> Word("outbound"),
            status |-> Word("received"),
            from |-> Obj([phoneNumber |-> fromPhone, name |-> Null]),
            to |-> Obj([phoneNumber |-> toPhone, name |-> Null]),
            content |-> MetaExtractContent(status),
            rawPayload |-> payload,
            metadata |-> Obj([businessAccountId |-> Prop(entry, "id"),
                              phoneNumberId |-> instanceId])]))

\* MetaAdapter.normalize, the branch of a received message (value.messages[0])
MetaInbound(payload, id, entry, value, metadata) ==
  LET msg == Idx(Prop(value, "messages"), 0)
      contact == OptIdx(Prop(value, "contacts"), 0)
      externalId == Prop(msg, "id")
      instanceId == Prop(metadata, "phone_number_id")
      timestamp == Times1000(ParseInt(Prop(msg, "timestamp")))
      fromPhone == NormalizePhoneNumber(Prop(msg, "from"))
      fromName == Or(OptProp(OptProp(contact, "profile"), "name"), Null)
      toPhone == NormalizePhoneNumber(Prop(metadata, "display_phone_number"))
      content == MetaExtractContent(msg)
      thrown == FirstThrow(<<externalId, instanceId, fromPhone, toPhone, content>>)
  IN IF IsThrow(thrown) THEN thrown
     ELSE CreateSuccess(Obj([
            id |-> id,
            externalId |-> externalId,
            provider |-> Word("meta"),
            instanceId |-> instanceId,
            timestamp |-> timestamp,
            direction |-> Word("inbound"),
            status |-> Word("received"),
            from |-> Obj([phoneNumber |-> fromPhone, name |-> fromName,
                          profilePicUrl |-> Undef]),
            to |-> Obj([phoneNumber |-> toPhone, name |-> Null]),
            content |-> content,
            rawPayload |-> payload,
            metadata |-> Obj([businessAccountId |-> Prop(entry, "id"),
                              phoneNumberId |-> instanceId])]))

\* MetaAdapter.normalize, the branch of a status update (value.statuses[0])
MetaStatusUpdate(payload, id, value, metadata) ==
  LET status == Idx(Prop(value, "statuses"), 0)
      externalId == Prop(status, "id")
      instanceId == Prop(metadata, "phone_number_id")
      timestamp == Times1000(ParseInt(Prop(status, "timestamp")))
      fromPhone == NormalizePhoneNumber(Prop(metadata, "display_phone_number"))
      toPhone == NormalizePhoneNumber(Prop(status, "recipient_id"))
      thrown == FirstThrow(<<externalId, instanceId, fromPhone, toPhone>>)
  IN IF IsThrow(thrown) THEN thrown
     ELSE CreateSuccess(Obj([
            id |-> id,
            externalId |-> externalId,
            provider |-> Word("meta"),
            instanceId |-> instanceId,
            timestamp |-> timestamp,
            direction |-> Word("outbound"),
            status |-> MetaMapStatus(Prop(status, "status")),
            from |-> Obj([phoneNumber |-> fromPhone, name |-> Null]),
            to |-> Obj([phoneNumber |-> toPhone, name |-> Null]),
            content |-> Obj([type |-> Word("unknown")]),
            rawPayload |-> payload,
            metadata |-> Obj([isStatusUpdate |-> Bool(TRUE),
                              originalStatus |-> Prop(status, "status")])]))

\* MetaAdapter.normalize, the body of its try block: a result, or the throw
\* that leaves the block
MetaExtract(payload, id) ==
  LET entry == Idx(Prop(payload, "entry"), 0)
      value == Prop(Idx(Prop(entry, "changes"), 0), "value")
      metadata == Prop(value, "metadata")
      messages == Prop(value, "messages")
      statuses == Prop(value, "statuses")
  IN IF IsThrow(metadata) THEN metadata
     ELSE IF Truthy(messages) /\ GtZero(Prop(messages, "length"))
          THEN MetaInbound(payload, id, entry, value, metadata)
     ELSE IF Truthy(statuses) /\ GtZero(Prop(statuses, "length"))
          THEN MetaStatusUpdate(payload, id, value, metadata)
     ELSE CreateError("PROCESSING_ERROR",
                      Word("Nao foi possivel extrair mensagem do payload"), Undef)

\* normalize without its try/catch: a fault of the extraction leaves it
MetaNormalize_noCatch(payload, id) ==
  LET handles == MetaCanHandle(payload)
      valid == MetaValidate(payload)
  IN IF IsThrow(handles) THEN handles
     ELSE IF ~Truthy(handles)
          THEN CreateError("INVALID_PAYLOAD",
                 Word("Payload nao e um webhook valido da Meta Cloud API"), Undef)
     ELSE IF IsThrow(valid) THEN valid
     ELSE IF ~Truthy(valid)
          THEN CreateError("MISSING_REQUIRED_FIELD",
                 Word("Payload da Meta nao contem mensagens ou status updates"), Undef)
     ELSE MetaExtract(payload, id)

\* normalize without its validate step
MetaNormalize_noValidate(payload, id) ==
  LET handles == MetaCanHandle(payload)
      extracted == MetaExtract(payload, id)
  IN IF IsThrow(handles) THEN handles
     ELSE IF ~Truthy(handles)
          THEN CreateError("INVALID_PAYLOAD",
                 Word("Payload nao e um webhook valido da Meta Cloud API"), Undef)
     ELSE IF IsThrow(extracted)
          THEN CreateError("PARSE_ERROR", Word("Erro ao processar payload da Meta"),
                           ErrorDetails(extracted.x))
     ELSE extracted

\* MetaAdapter.normalize
MetaNormalize(payload, id) ==
  LET handles == MetaCanHandle(payload)
      valid == MetaValidate(payload)
      extracted == MetaExtract(payload, id)
  IN IF IsThrow(handles) THEN handles
     ELSE IF ~Truthy(handles)
          THEN CreateError("INVALID_PAYLOAD",
                 Word("Payload nao e um webhook valido da Meta Cloud API"), Undef)
     ELSE IF IsThrow(valid) THEN valid
     ELSE IF ~Truthy(valid)
          THEN CreateError("MISSING_REQUIRED_FIELD",
                 Word("Payload da Meta nao contem mensagens ou status updates"), Undef)
     ELSE IF IsThrow(extracted)
          THEN CreateError("PARSE_ERROR", Word("Erro ao processar payload da Meta"),
                           ErrorDetails(extracted.x))
     ELSE extracted

----------------------------------------------------------------------------
(* EvolutionAdapter *)

\* canHandle without its test of the instance field
EvolutionCanHandle_noInstance(payload) ==
  IF ~IsObject(payload) THEN Bool(FALSE)
  ELSE Bool(/\ TypeOf(Prop(payload, "event")) = "string"
            /\ IsObject(Prop(payload, "data"))
            /\ IsObject(Prop(Prop(payload, "data"), "key")))

\* EvolutionAdapter.canHandle
EvolutionCanHandle(payload) ==
  IF ~IsObject(payload) THEN Bool(FALSE)
  ELSE Bool(/\ TypeOf(Prop(payload, "event")) = "string"
            /\ TypeOf(Prop(payload, "instance")) = "string"
            /\ IsObject(Prop(payload, "data"))
            /\ IsObject(Prop(Prop(payload, "data"), "key")))

\* EvolutionAdapter.validate
EvolutionValidate(payload) ==
  LET handles == EvolutionCanHandle(payload)
      data == OptProp(payload, "data")
      remoteJid == OptProp(OptProp(data, "key"), "remoteJid")
      keyId == OptProp(OptProp(data, "key"), "id")
      stamped == Bool(OptProp(data, "messageTimestamp") # Undef)
      found == IF ~Truthy(remoteJid) THEN remoteJid
               ELSE IF ~Truthy(keyId) THEN keyId ELSE stamped
  IN IF IsThrow(handles) THEN handles
     ELSE IF ~Truthy(handles) THEN Bool(FALSE)
     ELSE IF IsThrow(found) THEN Bool(FALSE) ELSE Bool(Truthy(found))

MessageEvents == {"messages.upsert", "messages.update", "message.ack", "send.message"}

\* isMessageEvent that takes every event name for a message event
IsMessageEvent_any(event) == TypeOf(event) = "string"

\* EvolutionAdapter.isMessageEvent
IsMessageEvent(event) == \E e \in MessageEvents : StrictEq(event, Word(e))

\* normalizeTimestamp with <= in place of <
NormalizeTimestamp_inclusive(timestamp) ==
  IF LessThanMillions(timestamp, 10000) \/ timestamp = BigNum(FALSE, 10000, 0)
  THEN Times1000(ToNumber(timestamp))
  ELSE timestamp

\* EvolutionAdapter.normalizeTimestamp: below 10,000,000,000 the value is taken
\* as seconds
NormalizeTimestamp(timestamp) ==
  IF LessThanMillions(timestamp, 10000) THEN Times1000(ToNumber(timestamp))
  ELSE timestamp

\* EvolutionAdapter.mapMessageType
EvolutionMapMessageType(evolutionType) ==
  Lookup([conversation |-> "text", extendedTextMessage |-> "text",
          imageMessage |-> "image", audioMessage |-> "audio",
          videoMessage |-> "video", documentMessage |-> "document",
          locationMessage |-> "location", contactMessage |-> "contact",
          stickerMessage |-> "sticker", reactionMessage |-> "reaction"],
         evolutionType, Word("unknown"))

\* EvolutionAdapter.extractContent
EvolutionExtractContent(message, messageType) ==
  LET v(k) == Prop(message, k)
  IN IF ~Truthy(message) THEN Obj([type |-> Word("unknown")])
       ELSE IF Truthy(v("conversation")) THEN
            Obj([type |-> Word("text"), text |-> v("conversation")])
       ELSE IF Truthy(v("extendedTextMessage")) THEN
            Obj([type |-> Word("text"),
                 text |-> Or(Prop(v("extendedTextMessage"), "text"), EmptyStr)])
       ELSE IF Truthy(v("imageMessage")) THEN
            Obj([type |-> Word("image"),
                 mediaUrl |-> Prop(v("imageMessage"), "url"),
                 mimeType |-> Prop(v("imageMessage"), "mimetype"),
                 caption |-> Prop(v("imageMessage"), "caption")])
       ELSE IF Truthy(v("audioMessage")) THEN
            Obj([type |-> Word("audio"),
                 mediaUrl |-> Prop(v("audioMessage"), "url"),
                 mimeType |-> Prop(v("audioMessage"), "mimetype")])
       ELSE IF Truthy(v("videoMessage")) THEN
            Obj([type |-> Word("video"),
                 mediaUrl |-> Prop(v("videoMessage"), "url"),
                 mimeType |-> Prop(v("videoMessage"), "mimetype"),
                 caption |-> Prop(v("videoMessage"), "caption")])
       ELSE IF Truthy(v("documentMessage")) THEN
            Obj([type |-> Word("document"),
                 mediaUrl |-> Prop(v("documentMessage"), "url"),
                 mimeType |-> Prop(v("documentMessage"), "mimetype"),
                 fileName |-> Prop(v("documentMessage"), "fileName"),
                 caption |-> Prop(v("documentMessage"), "caption")])
       ELSE IF Truthy(v("locationMessage")) THEN
            Obj([type |-> Word("location"),
                 location |->
                   Obj([latitude |-> Prop(v("locationMessage"), "degreesLatitude"),
                        longitude |-> Prop(v("locationMessage"), "degreesLongitude"),
                        name |-> Prop(v("locationMessage"), "name"),
                        address |-> Prop(v("locationMessage"), "address")])])
       ELSE
            Obj([type |-> EvolutionMapMessageType(messageType),
                 text |-> Str(<<"Conteudo do tipo: ">> \o ToStr(messageType))])

\* the try block with the sides decided by fromMe the other way round
EvolutionExtract_swapped(payload, id) ==
  LET event == Prop(payload, "event")
      data == Prop(payload, "data")
      key == Prop(data, "key")
      pushName == Prop(data, "pushName")
      fromMe == Truthy(Prop(key, "fromMe"))
      fromPhone == NormalizePhoneNumber(Prop(key, "remoteJid"))
      toPhone == NormalizePhoneNumber(Or(Prop(payload, "destination"), EmptyStr))
      thrown == FirstThrow(<<fromPhone, toPhone>>)
  IN IF ~IsMessageEvent(event)
     THEN CreateError("UNSUPPORTED_MESSAGE_TYPE",
            Str(<<"Evento nao suportado: ">> \o ToStr(event)
                  \o <<". Apenas eventos de mensagem sao processados.">>), Undef)
     ELSE IF IsThrow(thrown) THEN thrown
     ELSE CreateSuccess(Obj([
            id |-> id,
            externalId |-> Prop(key, "id"),
            provider |-> Word("evolution"),
            instanceId |-> Prop(payload, "instance"),
            timestamp |-> NormalizeTimestamp(Prop(data, "messageTimestamp")),
            direction |-> IF fromMe THEN Word("outbound") ELSE Word("inbound"),
            status |-> IF fromMe THEN Word("sent") ELSE Word("received"),
            from |-> Obj([phoneNumber |-> IF fromMe THEN fromPhone ELSE toPhone,
                          name |-> IF fromMe THEN Null ELSE Or(pushName, Null),
                          profilePicUrl |-> Undef]),
            to |-> Obj([phoneNumber |-> IF fromMe THEN toPhone ELSE fromPhone,
                        name |-> IF fromMe THEN Or(pushName, Null) ELSE Null]),
            content |-> EvolutionExtractContent(Prop(data, "message"),
                                                Prop(data, "messageType")),
            rawPayload |-> payload,
            metadata |-> Obj([event |-> event,
                              serverUrl |-> Prop(payload, "server_url"),
                              dateTime |-> Prop(payload, "date_time")])]))

\* EvolutionAdapter.normalize, the body of its try block
EvolutionExtract(payload, id) ==
  LET event == Prop(payload, "event")
      data == Prop(payload, "data")
      key == Prop(data, "key")
      pushName == Prop(data, "pushName")
      fromMe == Truthy(Prop(key, "fromMe"))
      fromPhone == NormalizePhoneNumber(Prop(key, "remoteJid"))
      toPhone == NormalizePhoneNumber(Or(Prop(payload, "destination"), EmptyStr))
      thrown == FirstThrow(<<fromPhone, toPhone>>)
  IN IF ~IsMessageEvent(event)
     THEN CreateError("UNSUPPORTED_MESSAGE_TYPE",
            Str(<<"Evento nao suportado: ">> \o ToStr(event)
                  \o <<". Apenas eventos de mensagem sao processados.">>), Undef)
     ELSE IF IsThrow(thrown) THEN thrown
     ELSE CreateSuccess(Obj([
            id |-> id,
            externalId |-> Prop(key, "id"),
            provider |-> Word("evolution"),
            instanceId |-> Prop(payload, "instance"),
            timestamp |-> NormalizeTimestamp(Prop(data, "messageTimestamp")),
            direction |-> IF fromMe THEN Word("outbound") ELSE Word("inbound"),
            status |-> IF fromMe THEN Word("sent") ELSE Word("received"),
            from |-> Obj([phoneNumber |-> IF fromMe THEN toPhone ELSE fromPhone,
                          name |-> IF fromMe THEN Null ELSE Or(pushName, Null),
                          profilePicUrl |-> Undef]),
            to |-> Obj([phoneNumber |-> IF fromMe THEN fromPhone ELSE toPhone,
                        name |-> IF fromMe THEN Or(pushName, Null) ELSE Null]),
            content |-> EvolutionExtractContent(Prop(data, "message"),
                                                Prop(data, "messageType")),
            rawPayload |-> payload,
            metadata |-> Obj([event |-> event,
                              serverUrl |-> Prop(payload, "server_url"),
                              dateTime |-> Prop(payload, "date_time")])]))

\* EvolutionAdapter.normalize
EvolutionNormalize(payload, id) ==
  LET handles == EvolutionCanHandle(payload)
      valid == EvolutionValidate(payload)
      extracted == EvolutionExtract(payload, id)
  IN IF IsThrow(handles) THEN handles
     ELSE IF ~Truthy(handles)
          THEN CreateError("INVALID_PAYLOAD",
                 Word("Payload nao e um webhook valido da Evolution API"), Undef)
     ELSE IF IsThrow(valid) THEN valid
     ELSE IF ~Truthy(valid)
          THEN CreateError("MISSING_REQUIRED_FIELD",
                 Word("Payload da Evolution nao contem campos obrigatorios (remoteJid, id, messageTimestamp)"),
                 Undef)
     ELSE IF IsThrow(extracted)
          THEN CreateError("PARSE_ERROR",
                 Word("Erro ao processar payload da Evolution API"),
                 ErrorDetails(extracted.x))
     ELSE extracted

----------------------------------------------------------------------------
(* ZApiAdapter *)

\* ZApiAdapter.canHandle
ZApiCanHandle(payload) ==
  IF ~IsObject(payload) THEN Bool(FALSE)
  ELSE Bool(/\ TypeOf(Prop(payload, "instanceId")) = "string"
            /\ TypeOf(Prop(payload, "messageId")) = "string"
            /\ TypeOf(Prop(payload, "phone")) = "string"
            /\ TypeOf(Prop(payload, "momment")) = "number")

\* ZApiAdapter.validate
ZApiValidate(payload) ==
  LET handles == ZApiCanHandle(payload)
  IN IF IsThrow(handles) THEN handles
     ELSE IF ~Truthy(handles) THEN Bool(FALSE)
     ELSE Bool(/\ Truthy(Prop(payload, "instanceId"))
               /\ Truthy(Prop(payload, "messageId"))
               /\ Truthy(Prop(payload, "phone"))
               /\ Truthy(Prop(payload, "momment")))

\* String.prototype.toUpperCase on the status words of the model
UpperCaseOf ==
  [received |-> "RECEIVED", sent |-> "SENT", delivered |-> "DELIVERED",
   read |-> "READ", played |-> "PLAYED", failed |-> "FAILED",
   pending |-> "PENDING", Sent |-> "SENT", Read |-> "READ",
   constructor |-> "CONSTRUCTOR", toString |-> "TOSTRING", queued |-> "QUEUED"]

\* x?.toUpperCase()
OptToUpperCase(x) ==
  CASE IsNullish(x) -> Undef
    [] x.t = "str" ->
         Str([i \in DOMAIN x.s |->
                IF x.s[i] \in DOMAIN UpperCaseOf THEN UpperCaseOf[x.s[i]] ELSE x.s[i]])
    [] OTHER -> TypeError("toUpperCase is not a function")

\* mapStatus that looks the status up for inbound messages as well
ZApiMapStatus_noForce(zapiStatus, isOutbound) ==
  LET upper == OptToUpperCase(zapiStatus)
  IN IF IsThrow(upper) THEN upper
     ELSE Lookup([RECEIVED |-> "received", SENT |-> "sent",
                  DELIVERED |-> "delivered", READ |-> "read", PLAYED |-> "read",
                  FAILED |-> "failed", PENDING |-> "pending"],
                 upper, Word("pending"))

\* ZApiAdapter.mapStatus
ZApiMapStatus(zapiStatus, isOutbound) ==
  IF ~isOutbound THEN Word("received")
  ELSE LET upper == OptToUpperCase(zapiStatus)
       IN IF IsThrow(upper) THEN upper
          ELSE Lookup([RECEIVED |-> "received", SENT |-> "sent",
                       DELIVERED |-> "delivered", READ |-> "read", PLAYED |-> "read",
                       FAILED |-> "failed", PENDING |-> "pending"],
                      upper, Word("pending"))

\* extractContent that probes image before text
ZApiExtractContent_imageFirst(p) ==
  IF Truthy(Prop(p, "image")) THEN
       Obj([type |-> Word("image"),
            mediaUrl |-> Prop(Prop(p, "image"), "imageUrl"),
            mimeType |-> Prop(Prop(p, "image"), "mimeType"),
            caption |-> Prop(Prop(p, "image"), "caption")])
  ELSE IF Truthy(OptProp(Prop(p, "text"), "message")) THEN
       Obj([type |-> Word("text"), text |-> Prop(Prop(p, "text"), "message")])
  ELSE Obj([type |-> Word("unknown"),
            text |-> Str(<<"Tipo de mensagem: ">> \o ToStr(Prop(p, "type")))])

\* ZApiAdapter.extractContent
ZApiExtractContent(p) ==
  LET v(k) == Prop(p, k)
  IN IF Truthy(OptProp(v("text"), "message")) THEN
            Obj([type |-> Word("text"), text |-> Prop(v("text"), "message")])
       ELSE IF Truthy(v("image")) THEN
            Obj([type |-> Word("image"),
                 mediaUrl |-> Prop(v("image"), "imageUrl"),
                 mimeType |-> Prop(v("image"), "mimeType"),
                 caption |-> Prop(v("image"), "caption")])
       ELSE IF Truthy(v("audio")) THEN
            Obj([type |-> Word("audio"),
                 mediaUrl |-> Prop(v("audio"), "audioUrl"),
                 mimeType |-> Prop(v("audio"), "mimeType")])
       ELSE IF Truthy(v("video")) THEN
            Obj([type |-> Word("video"),
                 mediaUrl |-> Prop(v("video"), "videoUrl"),
                 mimeType |-> Prop(v("video"), "mimeType"),
                 caption |-> Prop(v("video"), "caption")])
       ELSE IF Truthy(v("document")) THEN
            Obj([type |-> Word("document"),
                 mediaUrl |-> Prop(v("document"), "documentUrl"),
                 mimeType |-> Prop(v("document"), "mimeType"),
                 fileName |-> Prop(v("document"), "fileName"),
                 caption |-> Prop(v("document"), "caption")])
       ELSE IF Truthy(v("location")) THEN
            Obj([type |-> Word("location"),
                 location |->
                   Obj([latitude |-> Prop(v("location"), "latitude"),
                        longitude |-> Prop(v("location"), "longitude"),
                        name |-> Prop(v("location"), "name"),
                        address |-> Prop(v("location"), "address")])])
       ELSE
            Obj([type |-> Word("unknown"),
                 text |-> Str(<<"Tipo de mensagem: ">> \o ToStr(v("type")))])

\* ZApiAdapter.normalize, the body of its try block
ZApiExtract(payload, id) ==
  LET isOutbound == StrictEq(Prop(payload, "fromMe"), Bool(TRUE))
      contactPhone == NormalizePhoneNumber(Prop(payload, "phone"))
      status == ZApiMapStatus(Prop(payload, "status"), isOutbound)
      thrown == FirstThrow(<<contactPhone, status>>)
  IN IF IsThrow(thrown) THEN thrown
     ELSE CreateSuccess(Obj([
            id |-> id,
            externalId |-> Prop(payload, "messageId"),
            provider |-> Word("z-api"),
            instanceId |-> Prop(payload, "instanceId"),
            timestamp |-> Prop(payload, "momment"),
            direction |-> IF isOutbound THEN Word("outbound") ELSE Word("inbound"),
            status |-> status,
            from |-> Obj([phoneNumber |-> IF isOutbound THEN EmptyStr ELSE contactPhone,
                          name |-> IF isOutbound THEN Null
                                   ELSE Or(Or(Prop(payload, "senderName"),
                                              Prop(payload, "chatName")), Null),
                          profilePicUrl |-> Or(Prop(payload, "senderPhoto"),
                                               Prop(payload, "photo"))]),
            to |-> Obj([phoneNumber |-> IF isOutbound THEN contactPhone ELSE EmptyStr,
                        name |-> IF isOutbound THEN Or(Prop(payload, "chatName"), Null)
                                 ELSE Null]),
            content |-> ZApiExtractContent(payload),
            rawPayload |-> payload,
            metadata |-> Obj([type |-> Prop(payload, "type"),
                              broadcast |-> Prop(payload, "broadcast"),
                              participantPhone |-> Prop(payload, "participantPhone")])]))

\* ZApiAdapter.normalize
ZApiNormalize(payload, id) ==
  LET handles == ZApiCanHandle(payload)
      valid == ZApiValidate(payload)
      extracted == ZApiExtract(payload, id)
  IN IF IsThrow(handles) THEN handles
     ELSE IF ~Truthy(handles)
          THEN CreateError("INVALID_PAYLOAD",
                 Word("Payload nao e um webhook valido da Z-API"), Undef)
     ELSE IF IsThrow(valid) THEN valid
     ELSE IF ~Truthy(valid)
          THEN CreateError("MISSING_REQUIRED_FIELD",
                 Word("Payload da Z-API nao contem campos obrigatorios"), Undef)
     ELSE IF IsThrow(extracted)
          THEN CreateError("PARSE_ERROR", Word("Erro ao processar payload da Z-API"),
                           ErrorDetails(extracted.x))
     ELSE extracted

----------------------------------------------------------------------------
(* Adapters that callers register besides the built-in ones.  Each is an    *)
(* implementation of the WebhookAdapter interface:                          *)
(*   CustomAdapter  canHandle: p => p?.custom === true                      *)
(*                  normalize: () => ({ success: true, message: {} })       *)
(*   GreedyAdapter  canHandle: () => true                                   *)
(*                  normalize: () => { throw new Error('boom') }            *)
(*   FaultyAdapter  canHandle: p => p.data.faulty === true   (no guards)    *)
(*                  normalize: () => { throw 'fault' }                      *)

BuiltIn == {"MetaAdapter", "EvolutionAdapter", "ZApiAdapter"}
Custom == {"CustomAdapter", "GreedyAdapter", "FaultyAdapter"}

\* the provider field of each built-in adapter class
ProviderOf(impl) ==
  CASE impl = "MetaAdapter" -> "meta"
    [] impl = "EvolutionAdapter" -> "evolution"
    [] impl = "ZApiAdapter" -> "z-api"

\* adapter.canHandle(payload)
AdapterCanHandle(impl, payload) ==
  CASE impl = "MetaAdapter" -> MetaCanHandle(payload)
    [] impl = "EvolutionAdapter" -> EvolutionCanHandle(payload)
    [] impl = "ZApiAdapter" -> ZApiCanHandle(payload)
    [] impl = "CustomAdapter" ->
         Bool(StrictEq(OptProp(payload, "custom"), Bool(TRUE)))
    [] impl = "GreedyAdapter" -> Bool(TRUE)
    [] impl = "FaultyAdapter" ->
         LET faulty == Prop(Prop(payload, "data"), "faulty")
         IN IF IsThrow(faulty) THEN faulty ELSE Bool(StrictEq(faulty, Bool(TRUE)))

\* adapter.validate(payload)
AdapterValidate(impl, payload) ==
  CASE impl = "MetaAdapter" -> MetaValidate(payload)
    [] impl = "EvolutionAdapter" -> EvolutionValidate(payload)
    [] impl = "ZApiAdapter" -> ZApiValidate(payload)
    [] OTHER -> Bool(TRUE)

\* the try block of adapter.normalize(payload), for the built-in adapters
AdapterExtract(impl, payload, id) ==
  CASE impl = "MetaAdapter" -> MetaExtract(payload, id)
    [] impl = "EvolutionAdapter" -> EvolutionExtract(payload, id)
    [] impl = "ZApiAdapter" -> ZApiExtract(payload, id)

\* adapter.normalize(payload); id is what generateId returns in this call
AdapterNormalize(impl, payload, id) ==
  CASE impl = "MetaAdapter" -> MetaNormalize(payload, id)
    [] impl = "EvolutionAdapter" -> EvolutionNormalize(payload, id)
    [] impl = "ZApiAdapter" -> ZApiNormalize(payload, id)
    [] impl = "CustomAdapter" -> Obj([success |-> Bool(TRUE), message |-> EmptyObj])
    [] impl = "GreedyAdapter" -> Throw(ErrorObj(Word("boom")))
    [] impl = "FaultyAdapter" -> Throw(Word("fault"))

----------------------------------------------------------------------------
(* AdapterRegistry *)

\* An entry of the adapters Map: the key and the adapter instance
Entry(provider, impl) == [provider |-> provider, impl |-> impl]

\* A reference to an adapter instance, as a value
AdapterRef(entry) == [t |-> "adapter", provider |-> entry.provider, impl |-> entry.impl]

\* AdapterRegistry.registerDefaultAdapters, on the empty Map
DefaultAdapters ==
  <<Entry("meta", "MetaAdapter"), Entry("evolution", "EvolutionAdapter"),
    Entry("z-api", "ZApiAdapter")>>

\* Map.prototype.has
Has(table, provider) == \E i \in DOMAIN table : table[i].provider = provider

\* the position of provider's entry
IndexOf(table, provider) == CHOOSE i \in DOMAIN table : table[i].provider = provider

\* set that adds an entry without looking for the key
MapSet_append(table, entry) == Append(table, entry)

\* Map.prototype.set: an existing key keeps its place in the iteration order
MapSet(table, entry) ==
  IF Has(table, entry.provider)
  THEN [table EXCEPT ![IndexOf(table, entry.provider)] = entry]
  ELSE Append(table, entry)

\* Map.prototype.delete
MapDelete(table, provider) == SelectSeq(table, LAMBDA e : e.provider # provider)

\* AdapterRegistry.getAdapter
GetAdapterOf(table, provider) ==
  IF Has(table, provider) THEN AdapterRef(table[IndexOf(table, provider)]) ELSE Undef

\* AdapterRegistry.getRegisteredProviders
RegisteredProviders(table) == Arr([i \in DOMAIN table |-> Word(table[i].provider)])

RECURSIVE FindAdapterFrom(_, _, _)
\* AdapterRegistry.findAdapter: the loop over adapters.values(), from entry i on
FindAdapterFrom(table, payload, i) ==
  IF i > Len(table) THEN Undef
  ELSE LET handles == AdapterCanHandle(table[i].impl, payload)
       IN IF IsThrow(handles) THEN handles
          ELSE IF Truthy(handles) THEN AdapterRef(table[i])
          ELSE FindAdapterFrom(table, payload, i + 1)

\* AdapterRegistry.findAdapter
FindAdapterOf(table, payload) == FindAdapterFrom(table, payload, 1)

RECURSIVE IdentifyFrom(_, _, _)
\* AdapterRegistry.identifyProvider: the loop over adapters.values(), from entry i on
IdentifyFrom(table, payload, i) ==
  IF i > Len(table) THEN Obj([provider |-> Word("unknown"), confidence |-> Num(0)])
  ELSE LET handles == AdapterCanHandle(table[i].impl, payload)
       IN IF IsThrow(handles) THEN handles
          ELSE IF Truthy(handles)
               THEN Obj([provider |-> Word(table[i].provider), confidence |-> Num(1)])
          ELSE IdentifyFrom(table, payload, i + 1)

\* AdapterRegistry.identifyProvider
IdentifyProviderOf(table, payload) == IdentifyFrom(table, payload, 1)

\* AdapterRegistry.getPayloadKeys: Object.keys of an object, [] otherwise
\* (the keys of a set are listed in no particular order here)
RECURSIVE KeyList(_)
KeyList(keys) ==
  IF keys = {} THEN <<>>
  ELSE LET k == CHOOSE x \in keys : TRUE IN <<Word(k)>> \o KeyList(keys \ {k})

GetPayloadKeys(payload) ==
  IF TypeOf(payload) = "object" /\ payload # Null
  THEN IF payload.t = "obj" THEN Arr(KeyList(DOMAIN payload.o))
       ELSE IF payload.t = "arr"
            THEN Arr([i \in DOMAIN payload.a |-> Word(Digits[i])])
       ELSE Arr(<<>>)
  ELSE Arr(<<>>)

\* the object literal an error result of the registry is
RegistryError(code, message, details) ==
  Obj([success |-> Bool(FALSE),
       error |-> MkObj([code |-> Word(code), message |-> message, details |-> details])])

\* normalize without its test for null and undefined
NormalizeOf_noNullCheck(table, payload, id) ==
  LET adapter == FindAdapterOf(table, payload)
      result == AdapterNormalize(adapter.impl, payload, id)
  IN IF IsThrow(adapter) THEN adapter
     ELSE IF adapter = Undef
          THEN RegistryError("UNKNOWN_PROVIDER",
                 Word("Nenhum adapter registrado pode processar este payload"),
                 Obj([registeredProviders |-> RegisteredProviders(table),
                      payloadType |-> Word(TypeOf(payload)),
                      payloadKeys |-> GetPayloadKeys(payload)]))
     ELSE IF IsThrow(result)
          THEN RegistryError("PROCESSING_ERROR",
                 Str(<<"Erro ao processar payload com adapter ", adapter.provider>>),
                 ErrorDetails(result.x))
     ELSE result

\* normalize without its try/catch around adapter.normalize
NormalizeOf_rethrow(table, payload, id) ==
  IF payload = Null \/ payload = Undef
  THEN RegistryError("INVALID_PAYLOAD",
                     Word("Payload nao pode ser null ou undefined"), Absent)
  ELSE LET adapter == FindAdapterOf(table, payload)
       IN IF IsThrow(adapter) THEN adapter
          ELSE IF adapter = Undef
               THEN RegistryError("UNKNOWN_PROVIDER",
                      Word("Nenhum adapter registrado pode processar este payload"),
                      Obj([registeredProviders |-> RegisteredProviders(table),
                           payloadType |-> Word(TypeOf(payload)),
                           payloadKeys |-> GetPayloadKeys(payload)]))
          ELSE AdapterNormalize(adapter.impl, payload, id)

\* AdapterRegistry.normalize
NormalizeOf(table, payload, id) ==
  IF payload = Null \/ payload = Undef
  THEN RegistryError("INVALID_PAYLOAD",
                     Word("Payload nao pode ser null ou undefined"), Absent)
  ELSE LET adapter == FindAdapterOf(table, payload)
           result == AdapterNormalize(adapter.impl, payload, id)
       IN IF IsThrow(adapter) THEN adapter
          ELSE IF adapter = Undef
               THEN RegistryError("UNKNOWN_PROVIDER",
                      Word("Nenhum adapter registrado pode processar este payload"),
                      Obj([registeredProviders |-> RegisteredProviders(table),
                           payloadType |-> Word(TypeOf(payload)),
                           payloadKeys |-> GetPayloadKeys(payload)]))
          ELSE IF IsThrow(result)
               THEN RegistryError("PROCESSING_ERROR",
                      Str(<<"Erro ao processar payload com adapter ", adapter.provider>>),
                      ErrorDetails(result.x))
          ELSE result

\* normalizeWithProvider that detects the provider as normalize does
NormalizeWithProviderOf_detecting(table, payload, provider, id) ==
  NormalizeOf(table, payload, id)

\* AdapterRegistry.normalizeWithProvider
NormalizeWithProviderOf(table, payload, provider, id) ==
  IF ~Has(table, provider)
  THEN RegistryError("UNKNOWN_PROVIDER",
         Str(<<"Provider \"", provider, "\" nao esta registrado">>),
         Obj([registeredProviders |-> RegisteredProviders(table)]))
  ELSE AdapterNormalize(table[IndexOf(table, provider)].impl, payload, id)

----------------------------------------------------------------------------
(* The payloads of the model: the three example payloads of the test suite, *)
(* and variations of each of their parts                                   *)

CustomerNumber == <<"5", "5", "1", "1", "9", "8", "8", "8", "8", "8", "8", "8", "8">>
BusinessNumber == <<"5", "5", "1", "1", "9", "9", "9", "9", "9", "9", "9", "9", "9">>
CustomerJid == CustomerNumber \o <<"@", "s.whatsapp.net">>
BusinessJid == BusinessNumber \o <<"@", "s.whatsapp.net">>
FormattedNumber == <<"+", "5", "5", " ", "(", "1", "1", ")", " ", "9", "8", "-", "8">>
PlusNumber == <<"+", "+", "5", "5", " ", "1", "1", "+", "9", "8">>
SecondsText == <<"1", "6", "7", "7", "2", "3", "4", "5", "6", "7">>
SecondsNumber == BigNum(FALSE, 1677, 234567)
MillisNumber == BigNum(FALSE, 1677234, 567000)
Greeting == Word("Ola, gostaria de saber mais sobre o produto")

\* o1 with the own properties of o2 added ({...o1, ...o2})
Merge(o1, o2) ==
  Obj([k \in DOMAIN o1.o \cup DOMAIN o2.o |->
         IF k \in DOMAIN o2.o THEN o2.o[k] ELSE o1.o[k]])

(* Meta *)

MetaMetadata ==
  Obj([display_phone_number |-> Str(BusinessNumber), phone_number_id |-> Word("PHONE_NUMBER_ID")])
MetaContacts ==
  Arr(<<Obj([profile |-> Obj([name |-> Word("Joao Silva")]), wa_id |-> Str(CustomerNumber)])>>)

MetaMessage(from, id, timestamp, type, text) ==
  MkObj([from |-> from, id |-> id, timestamp |-> timestamp, type |-> type, text |-> text])
MetaTextMessage ==
  MetaMessage(Str(CustomerNumber), Word("wamid.HBgNNTUxMTk5OTk5OTk5ORUCABIYFjNFQjBCNkU3"),
              Str(SecondsText), Word("text"), Obj([body |-> Greeting]))
MetaStatus(id, status, timestamp, recipient) ==
  MkObj([id |-> id, status |-> status, timestamp |-> timestamp, recipient_id |-> recipient])
MetaSentStatus ==
  MetaStatus(Word("wamid.STATUS"), Word("sent"), Str(SecondsText), Str(CustomerNumber))

MetaValue(metadata, contacts, messages, statuses) ==
  MkObj([messaging_product |-> Word("whatsapp"), metadata |-> metadata,
         contacts |-> contacts, messages |-> messages, statuses |-> statuses])
MetaEntry(value) ==
  Obj([id |-> Word("WHATSAPP_BUSINESS_ACCOUNT_ID"),
       changes |-> Arr(<<Obj([value |-> value, field |-> Word("messages")])>>)])
MetaEnvelope(entries) == MkObj([object |-> WABA, entry |-> entries])
MetaPayloadOf(value) == MetaEnvelope(Arr(<<MetaEntry(value)>>))

\* metaPayload of the test suite
MetaExample ==
  MetaPayloadOf(MetaValue(MetaMetadata, MetaContacts, Arr(<<MetaTextMessage>>), Absent))

MetaMessageVariants ==
  {MetaMessage(from, id, timestamp, Word("text"), Obj([body |-> Greeting])) :
     from \in {Str(CustomerNumber), Str(FormattedNumber), Str(PlusNumber), Num(5511), Absent},
     id \in {Word("wamid.ABC"), EmptyStr, Absent},
     timestamp \in {Str(SecondsText), Word("soon"), Str(<<"0">>), Absent}}
  \cup
  {MetaMessage(Str(CustomerJid), Word("wamid.ABC"), Str(SecondsText), type, text) :
     type \in {Word("text"), Word("image"), Word("location"), Word("sticker"), Absent},
     text \in {Obj([body |-> Greeting]), Absent}}
MetaMessageLists ==
  {Absent, Arr(<<>>), Arr(<<Null>>), Word("ab"), Obj([length |-> Num(-1)]),
   Arr(<<EmptyObj, MetaTextMessage>>)}
  \cup {Arr(<<m>>) : m \in MetaMessageVariants}
MetaStatusVariants ==
  {MetaStatus(id, status, timestamp, Str(CustomerNumber)) :
     id \in {Word("wamid.STATUS"), Absent},
     status \in {Word("sent"), Word("delivered"), Word("read"), Word("failed"),
                 Word("deleted"), Word("toString"), Absent},
     timestamp \in {Str(SecondsText), Absent}}
  \cup {MetaStatus(Word("wamid.STATUS"), Word("read"), Str(SecondsText), Num(5511))}
MetaStatusLists ==
  {Absent, Arr(<<>>), Arr(<<Null>>)} \cup {Arr(<<st>>) : st \in MetaStatusVariants}
MetaMetadataVariants ==
  {MetaMetadata, Absent, Null, EmptyObj,
   Obj([display_phone_number |-> Num(5511), phone_number_id |-> Word("PHONE_NUMBER_ID")])}

MetaValues ==
  {MetaValue(MetaMetadata, MetaContacts, ms, Absent) : ms \in MetaMessageLists}
  \cup
  {MetaValue(MetaMetadata, Absent, Absent, sts) : sts \in MetaStatusLists}
  \cup
  {MetaValue(md, ct, ms, sts) :
     md \in MetaMetadataVariants,
     ct \in {MetaContacts, Arr(<<>>), Absent},
     ms \in {Absent, Arr(<<>>), Arr(<<MetaTextMessage>>), Arr(<<EmptyObj>>)},
     sts \in {Absent, Arr(<<>>), Arr(<<MetaSentStatus>>)}}

\* the example with something added or changed outside the first change of
\* the first entry and the first message: a second entry, a second change, a
\* second message, another id of the entry
MetaOtherMessage ==
  MetaMessage(Str(BusinessNumber), Word("wamid.LATER"), Str(SecondsText), Word("image"), Absent)
MetaLaterParts ==
  LET value == MetaValue(MetaMetadata, MetaContacts, Arr(<<MetaTextMessage>>), Absent)
      later == MetaValue(MetaMetadata, Absent, Arr(<<MetaOtherMessage>>), Absent)
      empty == MetaValue(MetaMetadata, Absent, Absent, Absent)
      change(v) == Obj([value |-> v, field |-> Word("messages")])
      entry(id, changes) == Obj([id |-> Word(id), changes |-> changes])
  IN {MetaEnvelope(Arr(<<MetaEntry(value), MetaEntry(later)>>)),
      MetaEnvelope(Arr(<<entry("WHATSAPP_BUSINESS_ACCOUNT_ID",
                               Arr(<<change(value), change(later)>>))>>)),
      MetaEnvelope(Arr(<<entry("WHATSAPP_BUSINESS_ACCOUNT_ID",
                               Arr(<<change(empty), change(later)>>))>>)),
      MetaPayloadOf(MetaValue(MetaMetadata, MetaContacts,
                              Arr(<<MetaTextMessage, MetaOtherMessage>>), Absent)),
      MetaPayloadOf(MetaValue(MetaMetadata, Absent, Absent,
                              Arr(<<MetaSentStatus,
                                    MetaStatus(Word("wamid.LATER"), Word("read"),
                                               Str(SecondsText), Str(BusinessNumber))>>))),
      MetaEnvelope(Arr(<<entry("ANOTHER_ACCOUNT_ID", Arr(<<change(value)>>))>>))}

MetaPayloads ==
  {MetaPayloadOf(v) : v \in MetaValues}
  \cup
  {MkObj([object |-> object, entry |-> entries]) :
     object \in {WABA, Word("page"), Absent},
     entries \in {Absent, Null, Arr(<<>>), Arr(<<Null>>), Arr(<<EmptyObj>>),
                  Arr(<<Word("entry")>>),
                  Arr(<<Obj([changes |-> Arr(<<>>)])>>),
                  Arr(<<Obj([changes |-> Arr(<<EmptyObj>>)])>>),
                  Arr(<<Obj([changes |-> Arr(<<Obj([value |-> Null])>>)])>>),
                  Arr(<<MetaEntry(MetaValue(MetaMetadata, Absent, Absent, Absent)),
                        MetaEntry(MetaValue(MetaMetadata, MetaContacts,
                                            Arr(<<MetaTextMessage>>), Absent))>>)}}
  \cup MetaLaterParts

(* Evolution *)

EvolutionKey(remoteJid, fromMe, id) ==
  MkObj([remoteJid |-> remoteJid, fromMe |-> fromMe, id |-> id])
EvolutionData(key, pushName, message, messageType, messageTimestamp) ==
  MkObj([key |-> key, pushName |-> pushName, message |-> message,
         messageType |-> messageType, messageTimestamp |-> messageTimestamp])
EvolutionPayloadOf(event, instance, data, destination) ==
  MkObj([event |-> event, instance |-> instance, data |-> data,
         destination |-> destination,
         date_time |-> Word("2024-01-15T10:30:00.000Z"),
         sender |-> Str(CustomerJid),
         server_url |-> Word("https://sua-evolution-api.com"),
         apikey |-> Word("sua-api-key")])
EvolutionExampleKey == EvolutionKey(Str(CustomerJid), Bool(FALSE), Word("3EB0B430B6F8C1D073A0"))
EvolutionExampleData ==
  EvolutionData(EvolutionExampleKey, Word("Joao Silva"), Obj([conversation |-> Greeting]),
                Word("conversation"), SecondsNumber)

\* evolutionPayload of the test suite
EvolutionExample ==
  EvolutionPayloadOf(Word("messages.upsert"), Word("minha-instancia"),
                     EvolutionExampleData, Str(BusinessJid))

EvolutionTimestamps ==
  {SecondsNumber, MillisNumber, BigNum(FALSE, 9999, 999999), BigNum(FALSE, 10000, 0),
   Num(0), Num(-5), Null, Str(SecondsText), Word("soon"), Absent}
EvolutionMessages ==
  {Absent, Null, EmptyObj,
   Obj([conversation |-> Greeting]),
   Obj([conversation |-> EmptyStr, extendedTextMessage |-> Obj([text |-> Greeting])]),
   Obj([extendedTextMessage |-> EmptyObj]),
   Obj([conversation |-> Greeting, imageMessage |-> Obj([mimetype |-> Word("image/jpeg")])]),
   Obj([imageMessage |-> Obj([url |-> Word("https://cdn/img"), mimetype |-> Word("image/jpeg")]),
        audioMessage |-> Obj([mimetype |-> Word("audio/ogg")])]),
   Obj([locationMessage |-> Obj([degreesLatitude |-> Num(-23), degreesLongitude |-> Num(-46)])]),
   Obj([stickerMessage |-> EmptyObj])}

EvolutionPayloads ==
  {EvolutionPayloadOf(event, instance, data, Str(BusinessJid)) :
     event \in {Word("messages.upsert"), Word("connection.update"), Num(1), Absent},
     instance \in {Word("minha-instancia"), Absent},
     data \in {EvolutionExampleData, Absent, Null, Arr(<<>>), EmptyObj,
               Obj([key |-> Null]), Obj([key |-> Arr(<<>>)]), Obj([key |-> EmptyObj])}}
  \cup
  {EvolutionPayloadOf(Word("messages.upsert"), Word("minha-instancia"),
                      EvolutionData(EvolutionKey(remoteJid, Bool(FALSE), id), Word("Joao Silva"),
                                    Obj([conversation |-> Greeting]), Word("conversation"),
                                    messageTimestamp),
                      Str(BusinessJid)) :
     remoteJid \in {Str(CustomerJid), Str(FormattedNumber), Str(PlusNumber), EmptyStr,
                   Num(5511), Absent},
     id \in {Word("3EB0B430B6F8C1D073A0"), EmptyStr, Absent},
     messageTimestamp \in EvolutionTimestamps}
  \cup
  {EvolutionPayloadOf(event, Word("minha-instancia"),
                      EvolutionData(EvolutionKey(Str(CustomerJid), fromMe, Word("3EB0")),
                                    pushName, message, messageType, SecondsNumber),
                      destination) :
     event \in {Word("messages.upsert"), Word("send.message"), Word("presence.update")},
     fromMe \in {Bool(TRUE), Bool(FALSE), Absent},
     pushName \in {Word("Joao Silva"), Absent},
     message \in EvolutionMessages,
     messageType \in {Word("conversation"), Word("stickerMessage"), Word("pollMessage"),
                      Word("constructor")},
     destination \in {Str(BusinessJid), Absent, Num(5511)}}

(* Z-API *)

ZApiBase ==
  Obj([instanceId |-> Word("SUA_INSTANCE_ID"), messageId |-> Word("3EB0B430B6F8C1D073A0"),
       phone |-> Str(CustomerNumber), fromMe |-> Bool(FALSE), momment |-> MillisNumber,
       status |-> Word("RECEIVED"), chatName |-> Word("Joao Silva"),
       senderPhoto |-> Word("https://pps.whatsapp.net/..."),
       senderName |-> Word("Joao Silva"), participantPhone |-> Null,
       photo |-> Word("https://pps.whatsapp.net/..."), broadcast |-> Bool(FALSE),
       type |-> Word("ReceivedCallback")])

\* zapiPayload of the test suite
ZApiExample == Merge(ZApiBase, Obj([text |-> Obj([message |-> Greeting])]))

ZApiContents ==
  {EmptyObj,
   Obj([text |-> Obj([message |-> Greeting])]),
   Obj([text |-> Obj([message |-> Greeting]),
        image |-> Obj([imageUrl |-> Word("https://cdn/img"), mimeType |-> Word("image/jpeg")])]),
   Obj([text |-> Obj([message |-> EmptyStr]),
        image |-> Obj([imageUrl |-> Word("https://cdn/img"), mimeType |-> Word("image/jpeg")])]),
   Obj([text |-> EmptyObj]),
   Obj([audio |-> Obj([audioUrl |-> Word("https://cdn/aud"), mimeType |-> Word("audio/ogg")]),
        video |-> Obj([videoUrl |-> Word("https://cdn/vid"), mimeType |-> Word("video/mp4")])]),
   Obj([document |-> Obj([documentUrl |-> Word("https://cdn/doc"), fileName |-> Word("a.pdf"),
                          mimeType |-> Word("application/pdf")]),
        location |-> Obj([latitude |-> Num(-23), longitude |-> Num(-46)])]),
   Obj([location |-> Obj([latitude |-> Num(-23), longitude |-> Num(-46)])])}

ZApiPayloads ==
  {Merge(Merge(ZApiBase, Obj([text |-> Obj([message |-> Greeting])])),
         MkObj([instanceId |-> instanceId, messageId |-> messageId, phone |-> phone,
                momment |-> momment])) :
     instanceId \in {Word("SUA_INSTANCE_ID"), EmptyStr, Num(7)},
     messageId \in {Word("3EB0B430B6F8C1D073A0"), EmptyStr, Null},
     phone \in {Str(CustomerNumber), Str(CustomerJid), Str(FormattedNumber), Str(PlusNumber),
                EmptyStr, Num(5511)},
     momment \in {MillisNumber, SecondsNumber, Num(0), Num(-5), Str(SecondsText), Null}}
  \cup
  {Merge(Merge(ZApiBase, content),
         MkObj([fromMe |-> fromMe, status |-> status, senderName |-> senderName])) :
     content \in ZApiContents,
     fromMe \in {Bool(TRUE), Bool(FALSE), Word("true"), Null},
     status \in {Word("RECEIVED"), Word("sent"), Word("Read"), Word("PLAYED"),
                 Word("delivered"), Word("failed"), Word("pending"), Word("queued"),
                 Word("constructor"), Num(3), Null},
     senderName \in {Word("Joao Silva"), Null}}
  \cup
  {Obj([k \in DOMAIN ZApiExample.o \ {gone} |-> ZApiExample.o[k]]) :
     gone \in {"instanceId", "messageId", "phone", "momment", "status", "fromMe"}}

(* Payloads of no provider, and payloads that carry the markers of several *)

OtherPayloads ==
  {Null, Undef, Bool(TRUE), Num(7), Word("payload"), EmptyStr, Arr(<<>>),
   Arr(<<MetaExample>>), EmptyObj,
   Obj([foo |-> Word("bar")]), Obj([unknown |-> Bool(TRUE)]), Obj([invalid |-> Bool(TRUE)]),
   Obj([object |-> Word("other")]), Obj([custom |-> Bool(TRUE)]), Obj([data |-> Obj([faulty |-> Bool(TRUE)])])}

HybridPayloads ==
  {Merge(MetaExample, EvolutionExample), Merge(EvolutionExample, ZApiExample),
   Merge(ZApiExample, MetaExample), Merge(Merge(MetaExample, EvolutionExample), ZApiExample)}

Examples == {MetaExample, EvolutionExample, ZApiExample}

\* every payload an adapter is applied to
AdapterPayloads ==
  MetaPayloads \cup EvolutionPayloads \cup ZApiPayloads \cup OtherPayloads \cup HybridPayloads

\* what Date.now() and the random suffix of generateId may be
ClockReadings == {"1700000000000"}
RandomSuffixes == {"k3j9x2a", "q7w1e5r"}
GeneratedIds == {GenerateId(now, rnd) : now \in ClockReadings, rnd \in RandomSuffixes}

----------------------------------------------------------------------------
(* The adapters alone: a payload is drawn, and the operations of the three  *)
(* built-in adapters are applied to it                                     *)

\* no webhook is being handled and nothing was stored
NoDeliveries ==
  /\ deliveries = <<>>
  /\ database = [messages |-> <<>>, contacts |-> <<>>]

InitAdapters ==
  /\ NoDeliveries
  /\ adapters = DefaultAdapters
  /\ op = "new"
  /\ target = "none"
  /\ arg \in AdapterPayloads
  /\ ret = Undef
  /\ logged = <<>>

Called(name, on, result) ==
  /\ op' = name
  /\ target' = on
  /\ ret' = result
  /\ logged' = <<>>
  /\ UNCHANGED <<deliveries, database>>

\* adapter.canHandle(arg)
CallCanHandle(impl) ==
  /\ Called("canHandle", impl, AdapterCanHandle(impl, arg))
  /\ UNCHANGED <<adapters, arg>>

\* adapter.validate(arg)
CallValidate(impl) ==
  /\ Called("validate", impl, AdapterValidate(impl, arg))
  /\ UNCHANGED <<adapters, arg>>

\* adapter.normalize(arg)
CallNormalize(impl, id) ==
  /\ Called("normalize", impl, AdapterNormalize(impl, arg, id))
  /\ UNCHANGED <<adapters, arg>>

NextAdapters ==
  \E impl \in BuiltIn :
    \/ CallCanHandle(impl)
    \/ CallValidate(impl)
    \/ \E id \in GeneratedIds : CallNormalize(impl, id)

SpecAdapters == InitAdapters /\ [][NextAdapters]_vars

----------------------------------------------------------------------------
(* The registry: webhook deliveries arrive, and the operations of the       *)
(* registry are called in any order                                        *)

Providers == {"meta", "evolution", "z-api", "custom"}

\* the adapters a caller may hand to register: a new instance of a built-in
\* adapter, a custom adapter of a new provider, a custom adapter that declares
\* the provider of a built-in one
Registrable ==
  {Entry(ProviderOf(impl), impl) : impl \in BuiltIn}
  \cup {Entry("custom", "CustomAdapter"), Entry("custom", "FaultyAdapter"),
        Entry("meta", "GreedyAdapter")}

RegistryPayloads ==
  {Null, Undef, Word("payload"), Obj([foo |-> Word("bar")]),
   Obj([custom |-> Bool(TRUE)]), Obj([data |-> Obj([faulty |-> Bool(TRUE)])]),
   MetaExample, EvolutionExample, ZApiExample,
   MetaPayloadOf(MetaValue(MetaMetadata, Absent, Absent, Absent)),
   MetaPayloadOf(MetaValue(Absent, Absent, Arr(<<MetaTextMessage>>), Absent)),
   Merge(MetaExample, EvolutionExample)}

Init ==
  /\ NoDeliveries
  /\ adapters = DefaultAdapters
  /\ op = "new"
  /\ target = "none"
  /\ arg \in RegistryPayloads
  /\ ret = Undef
  /\ logged = <<>>

\* a webhook delivery arrives
Receive(payload) ==
  /\ arg' = payload
  /\ Called("receive", "none", Undef)
  /\ UNCHANGED adapters

\* registry.register(adapter)
Register(entry) ==
  /\ adapters' = MapSet(adapters, entry)
  /\ op' = "register"
  /\ target' = entry.provider
  /\ ret' = Undef
  /\ logged' = IF Has(adapters, entry.provider)
               THEN <<"warn", "Adapter para provider ja existe. Substituindo...">>
               ELSE <<>>
  /\ UNCHANGED <<arg, deliveries, database>>

\* registry.unregister(provider)
Unregister(provider) ==
  /\ adapters' = MapDelete(adapters, provider)
  /\ Called("unregister", provider, Bool(Has(adapters, provider)))
  /\ UNCHANGED arg

\* reset that registers the built-in adapters without clearing the table
Reset_noClear ==
  /\ adapters' = MapSet(MapSet(MapSet(adapters, DefaultAdapters[1]), DefaultAdapters[2]),
                        DefaultAdapters[3])
  /\ Called("reset", "none", Undef)
  /\ UNCHANGED arg

\* registry.reset()
Reset ==
  /\ adapters' = DefaultAdapters
  /\ Called("reset", "none", Undef)
  /\ UNCHANGED arg

\* registry.getAdapter(provider)
GetAdapter(provider) ==
  /\ Called("getAdapter", provider, GetAdapterOf(adapters, provider))
  /\ UNCHANGED <<adapters, arg>>

\* registry.getRegisteredProviders()
GetRegisteredProviders ==
  /\ Called("getRegisteredProviders", "none", RegisteredProviders(adapters))
  /\ UNCHANGED <<adapters, arg>>

\* registry.identifyProvider(arg)
IdentifyProvider ==
  /\ Called("identifyProvider", "none", IdentifyProviderOf(adapters, arg))
  /\ UNCHANGED <<adapters, arg>>

\* registry.findAdapter(arg)
FindAdapter ==
  /\ Called("findAdapter", "none", FindAdapterOf(adapters, arg))
  /\ UNCHANGED <<adapters, arg>>

\* normalize that drops the adapters it does not use from the table
Normalize_pruning(id) ==
  /\ Called("normalize", "none", NormalizeOf(adapters, arg, id))
  /\ adapters' = SelectSeq(adapters, LAMBDA e : AdapterCanHandle(e.impl, arg) = Bool(TRUE))
  /\ UNCHANGED arg

\* registry.normalize(arg)
Normalize(id) ==
  /\ Called("normalize", "none", NormalizeOf(adapters, arg, id))
  /\ UNCHANGED <<adapters, arg>>

\* registry.normalizeWithProvider(arg, provider)
NormalizeWithProvider(provider, id) ==
  /\ Called("normalizeWithProvider", provider,
            NormalizeWithProviderOf(adapters, arg, provider, id))
  /\ UNCHANGED <<adapters, arg>>

Next ==
  \/ \E payload \in RegistryPayloads : Receive(payload)
  \/ \E entry \in Registrable : Register(entry)
  \/ \E provider \in Providers : Unregister(provider)
  \/ Reset
  \/ \E provider \in Providers : GetAdapter(provider)
  \/ GetRegisteredProviders
  \/ IdentifyProvider
  \/ FindAdapter
  \/ \E id \in GeneratedIds : Normalize(id)
  \/ \E provider \in Providers, id \in GeneratedIds : NormalizeWithProvider(provider, id)

Spec == Init /\ [][Next]_vars

----------------------------------------------------------------------------
(* Phone numbers: the two normalizePhoneNumber functions applied to strings *)

RECURSIVE SelectDigits(_, _)
\* s.replace(/[^\d]/g, ''): the tokens of s that are digits
SelectDigits(s, i) ==
  IF i > Len(s) THEN <<>>
  ELSE (IF IsDigit(s[i]) THEN <<s[i]>> ELSE <<>>) \o SelectDigits(s, i + 1)

\* normalizePhoneNumber of utils/helpers
HelperNormalizePhoneNumber(phone) ==
  IF ~Truthy(phone) THEN EmptyStr
  ELSE LET normalized == SelectDigits(StripSuffix(phone.s), 1)
       IN IF Len(normalized) = 11 /\ SubSeq(normalized, 1, 2) = <<"1", "1">>
          THEN Str(<<"5", "5">> \o normalized)
          ELSE Str(normalized)

\* the phone strings tried: every string of at most MaxPhoneLen of these
\* tokens, and numbers as the providers write them
MaxPhoneLen == 3
PhoneTokens == {"1", "5", "+", "@", "c.us", " "}
PhoneStrings ==
  {Str(s) : s \in UNION {[1..n -> PhoneTokens] : n \in 0..MaxPhoneLen}}
  \cup {Str(CustomerNumber), Str(CustomerJid), Str(FormattedNumber),
        Str(SubSeq(CustomerNumber, 3, 13)), Str(<<"+", "+">> \o CustomerNumber),
        Str(<<"+">> \o CustomerNumber \o <<"@", "g.us">>)}

InitPhone ==
  /\ NoDeliveries
  /\ adapters = <<>>
  /\ op = "new"
  /\ target = "none"
  /\ arg \in PhoneStrings
  /\ ret = Undef
  /\ logged = <<>>

\* this.normalizePhoneNumber(arg), in an adapter
CallBaseNormalizePhoneNumber ==
  /\ Called("normalizePhoneNumber", "BaseWebhookAdapter", NormalizePhoneNumber(arg))
  /\ UNCHANGED <<adapters, arg>>

\* normalizePhoneNumber(arg), of utils/helpers
CallHelperNormalizePhoneNumber ==
  /\ Called("normalizePhoneNumber", "helpers", HelperNormalizePhoneNumber(arg))
  /\ UNCHANGED <<adapters, arg>>

\* the result of a call is normalized again
Renormalize ==
  /\ op = "normalizePhoneNumber"
  /\ arg' = ret
  /\ Called("renormalize", target, Undef)
  /\ UNCHANGED adapters

NextPhone ==
  \/ CallBaseNormalizePhoneNumber
  \/ CallHelperNormalizePhoneNumber
  \/ Renormalize

SpecPhone == InitPhone /\ [][NextPhone]_vars

----------------------------------------------------------------------------
(* WebhookHandler: several deliveries handled at once.  A handleWebhook     *)
(* call runs without interruption up to an await; registry.normalize has    *)
(* no await and runs as a whole.  The registry is the default one and is    *)
(* not changed while deliveries are in flight.                              *)

MaxDeliveries == 2
Deliveries == 1..MaxDeliveries

\* request bodies: none, null, two of the examples, an object of no provider
\* and a Meta payload whose first message is {} (no sender number)
DeliveryBodies ==
  {Undef, Null, MetaExample, EvolutionExample, EmptyObj,
   MetaPayloadOf(MetaValue(MetaMetadata, MetaContacts, Arr(<<EmptyObj>>), Absent))}

\* { success: false, error }
ErrorResponse(error) == Obj([success |-> Bool(FALSE), error |-> error])

\* the catch block of handleWebhook
CaughtResponse(thrown) ==
  ErrorResponse(IF thrown.x.t = "err" THEN thrown.x.m ELSE Word("Erro interno"))

\* the success response built from the last row of the messages table
SuccessResponse_lastSaved(message) ==
  LET rows == database.messages
  IN Obj([success |-> Bool(TRUE),
          messageId |-> rows[Len(rows)].col_0,
          provider |-> rows[Len(rows)].col_2])

\* { success: true, messageId: result.message.id, provider: result.message.provider }
SuccessResponse(message) ==
  Obj([success |-> Bool(TRUE),
       messageId |-> Prop(message, "id"),
       provider |-> Prop(message, "provider")])

\* text?.substring(0, 50): the throw of a text that is no string, Undef otherwise
SubstringFault(text) ==
  IF IsThrow(text) THEN text
  ELSE IF IsNullish(text) \/ text.t = "str" THEN Undef
  ELSE TypeError("substring is not a function")

\* message.content.text?.substring(0, 50), read by processMessage for its log
PreviewFault(message) == SubstringFault(OptProp(OptProp(message, "content"), "text"))

\* handleWebhook has returned (or thrown) the response
Returned(response) == [pc |-> "done", result |-> Undef, response |-> response]

\* the response to a result that is no success:
\* { success: false, error: result.error?.message || ..., provider }
FailureResponse(result, provider) ==
  IF IsThrow(provider) THEN CaughtResponse(provider)
  ELSE Obj([success |-> Bool(FALSE),
            error |-> Or(OptProp(Prop(result, "error"), "message"),
                         Word("Erro desconhecido na normalizacao")),
            provider |-> provider])

\* handleWebhook from the result of registry.normalize to its first await or
\* to its return
HandleResult(table, body, result, fault) ==
  IF IsThrow(result) THEN Returned(CaughtResponse(result))
  ELSE IF ~Truthy(Prop(result, "success")) \/ ~Truthy(Prop(result, "message"))
       THEN Returned(FailureResponse(result,
                       Prop(IdentifyProviderOf(table, body), "provider")))
  ELSE IF IsThrow(fault) THEN Returned(CaughtResponse(fault))
  ELSE [pc |-> "saveMessage", result |-> result, response |-> Undef]

\* handleWebhook from its call to its first await or to its return: the
\* position reached, the result of registry.normalize and the response
HandleWebhookOf(table, body, result) ==
  IF body = Undef THEN Returned(TypeError("length"))
  ELSE IF ~Truthy(body)
       THEN Returned(ErrorResponse(Word("Payload vazio ou invalido")))
  ELSE HandleResult(table, body, result, PreviewFault(OptProp(result, "message")))

\* InMemoryClient.query of an INSERT: rows.push(paramsToRow(params))
InsertRow(rows, row) == Append(rows, row)

\* the first parameters of the INSERT INTO messages of saveMessage
MessageRow(message) ==
  [col_0 |-> Prop(message, "id"), col_1 |-> Prop(message, "externalId"),
   col_2 |-> Prop(message, "provider")]

\* the parameters of the INSERT INTO contacts of upsertContact
ContactRow(contact) ==
  [col_0 |-> Prop(contact, "phoneNumber"), col_1 |-> Prop(contact, "name"),
   col_2 |-> Prop(contact, "profilePicUrl")]

InitDeliveries ==
  /\ adapters = DefaultAdapters
  /\ op = "new"
  /\ target = "none"
  /\ arg = Undef
  /\ ret = Undef
  /\ logged = <<>>
  /\ deliveries \in [Deliveries ->
                       {[body |-> body, pc |-> "pending", result |-> Undef,
                         response |-> Undef] : body \in DeliveryBodies}]
  /\ database = [messages |-> <<>>, contacts |-> <<>>]

\* handleWebhook is called for delivery d: it normalizes the body and either
\* returns, or goes on into processMessage and saveMessage, which hands the
\* row of the message to the database and awaits
HandleWebhook(d, id) ==
  /\ deliveries[d].pc = "pending"
  /\ \E reached \in {HandleWebhookOf(adapters, deliveries[d].body,
                                       NormalizeOf(adapters, deliveries[d].body, id))} :
        /\ deliveries' = [deliveries EXCEPT ![d].pc = reached.pc,
                                            ![d].result = reached.result,
                                            ![d].response = reached.response]
        /\ database' =
             IF reached.pc = "saveMessage"
             THEN [database EXCEPT
                     !.messages = InsertRow(@, MessageRow(Prop(reached.result, "message")))]
             ELSE database
  /\ UNCHANGED <<adapters, op, target, arg, ret, logged>>

\* upsertContact that takes the sender of the message whatever its direction
UpsertContact_sender(d) ==
  /\ deliveries[d].pc = "saveMessage"
  /\ LET contact == Prop(Prop(deliveries[d].result, "message"), "from")
     IN database' = IF Truthy(Prop(contact, "phoneNumber"))
                    THEN [database EXCEPT !.contacts = InsertRow(@, ContactRow(contact))]
                    ELSE database
  /\ deliveries' = [deliveries EXCEPT ![d].pc = "upsertContact"]
  /\ UNCHANGED <<adapters, op, target, arg, ret, logged>>

\* saveMessage of delivery d resumes: upsertContact hands the row of the
\* contact to the database and awaits, or returns when there is no number
UpsertContact(d) ==
  /\ deliveries[d].pc = "saveMessage"
  /\ LET message == Prop(deliveries[d].result, "message")
         contact == IF Prop(message, "direction") = Word("inbound")
                    THEN Prop(message, "from") ELSE Prop(message, "to")
     IN database' = IF Truthy(Prop(contact, "phoneNumber"))
                    THEN [database EXCEPT !.contacts = InsertRow(@, ContactRow(contact))]
                    ELSE database
  /\ deliveries' = [deliveries EXCEPT ![d].pc = "upsertContact"]
  /\ UNCHANGED <<adapters, op, target, arg, ret, logged>>

\* saveMessage and processMessage of delivery d return, and handleWebhook
\* returns its success response
Respond(d) ==
  /\ deliveries[d].pc = "upsertContact"
  /\ deliveries' =
       [deliveries EXCEPT ![d].pc = "done",
                          ![d].response = SuccessResponse(Prop(deliveries[d].result, "message"))]
  /\ UNCHANGED <<adapters, op, target, arg, ret, logged, database>>

NextDeliveries ==
  \E d \in DOMAIN deliveries :
    \/ \E id \in GeneratedIds : HandleWebhook(d, id)
    \/ UpsertContact(d)
    \/ Respond(d)

SpecDeliveries == InitDeliveries /\ [][NextDeliveries]_vars

----------------------------------------------------------------------------
(* WebhookHandler and MessageService: one delivery from its arrival to its  *)
(* response, over every payload of the adapters, with a database whose      *)
(* queries may be rejected                                                  *)

\* an Evolution message whose conversation is a number, not a string
EvolutionNumericText ==
  EvolutionPayloadOf(Word("messages.upsert"), Word("minha-instancia"),
                     EvolutionData(EvolutionExampleKey, Word("Joao Silva"),
                                   Obj([conversation |-> Num(123)]),
                                   Word("conversation"), SecondsNumber),
                     Str(BusinessJid))

StoredBodies == AdapterPayloads \cup {Undef, Null, EvolutionNumericText}

InitStorage ==
  /\ adapters = DefaultAdapters
  /\ op = "new"
  /\ target = "none"
  /\ arg = Undef
  /\ ret = Undef
  /\ logged = <<>>
  /\ \E body \in StoredBodies :
       deliveries = <<[body |-> body, pc |-> "pending", result |-> Undef,
                       response |-> Undef]>>
  /\ database = [messages |-> <<>>, contacts |-> <<>>]

\* the query that delivery d awaits is rejected: saveMessage logs the error and
\* throws it again, processMessage rejects and handleWebhook's catch block
\* answers
QueryRejects(d) ==
  /\ deliveries[d].pc \in {"saveMessage", "upsertContact"}
  /\ deliveries' =
       [deliveries EXCEPT
          ![d].pc = "done",
          ![d].response = CaughtResponse(Throw(ErrorObj(Word("Connection terminated"))))]
  /\ UNCHANGED <<adapters, op, target, arg, ret, logged, database>>

NextStorage ==
  \/ NextDeliveries
  \/ \E d \in DOMAIN deliveries : QueryRejects(d)

SpecStorage == InitStorage /\ [][NextStorage]_vars

----------------------------------------------------------------------------
(* Vocabulary of the properties *)

\* r is a NormalizationResult
IsResult(r) == r.t = "obj" /\ "success" \in DOMAIN r.o /\ r.o.success.t = "bool"

\* r is a successful NormalizationResult
Succeeded(r) == IsResult(r) /\ r.o.success = Bool(TRUE)

\* r is a failed NormalizationResult with this error code
FailedWith(r, code) ==
  /\ IsResult(r)
  /\ r.o.success = Bool(FALSE)
  /\ Prop(Prop(r, "error"), "code") = Word(code)

NonEmptyString(x) == x.t = "str" /\ Len(x.s) > 0

NonEmptyArray(x) == x.t = "arr" /\ Len(x.a) > 0

\* the built-in adapter whose operation was called accepts the payload
Handles(impl, payload) == AdapterCanHandle(impl, payload) = Bool(TRUE)

\* the value of the first change of the first entry of a Meta payload
FirstValue == MetaFirstValueOpt(arg)

----------------------------------------------------------------------------
(* Properties of the built-in adapters, under SpecAdapters *)

\* C1: every successful result of a built-in adapter's normalize carries a
\* message with a non-empty id, a non-empty externalId, a provider other than
\* unknown, a timestamp greater than 0 and a direction of inbound or outbound.
C1_SuccessHasRequiredFields ==
  (op = "normalize" /\ target \in BuiltIn /\ Succeeded(ret)) =>
    LET message == Prop(ret, "message")
    IN /\ NonEmptyString(Prop(message, "id"))
       /\ NonEmptyString(Prop(message, "externalId"))
       /\ Prop(message, "provider") \in {Word("meta"), Word("evolution"), Word("z-api")}
       /\ IsPositive(Prop(message, "timestamp"))
       /\ Prop(message, "direction") \in {Word("inbound"), Word("outbound")}

Markers(impl) ==
  CASE impl = "MetaAdapter" -> {"object", "entry"}
    [] impl = "EvolutionAdapter" -> {"event", "instance", "data"}
    [] impl = "ZApiAdapter" -> {"instanceId", "messageId", "phone", "momment"}

\* the documented example payload of each built-in adapter
ExampleOf(impl) ==
  CASE impl = "MetaAdapter" -> MetaExample
    [] impl = "EvolutionAdapter" -> EvolutionExample
    [] impl = "ZApiAdapter" -> ZApiExample

\* C8, as stated: when a built-in adapter's canHandle accepts a payload, no
\* other built-in adapter's canHandle accepts it.
C8_AtMostOneAccepts ==
  (op = "canHandle" /\ target \in BuiltIn /\ ret = Bool(TRUE)) =>
    \A other \in BuiltIn \ {target} : ~Handles(other, arg)

\* C8, amended: each documented example payload is accepted by its own adapter
\* and by no other, and whatever payload a built-in adapter accepts is an
\* object that carries that adapter's marker fields, so that a payload
\* accepted by several adapters carries the markers of each of them.
C8_MarkersDecide ==
  (op = "canHandle" /\ target \in BuiltIn) =>
    /\ ret = Bool(TRUE) => (arg.t = "obj" /\ Markers(target) \subseteq DOMAIN arg.o)
    /\ arg \in Examples => ret = Bool(arg = ExampleOf(target))
    /\ \A other \in BuiltIn :
         (ret = Bool(TRUE) /\ Handles(other, arg)) =>
           (Markers(target) \cup Markers(other)) \subseteq DOMAIN arg.o

\* C8, its case: a payload with the markers of two providers is accepted, and
\* another adapter accepts it as well
C8_Witness ==
  /\ op = "canHandle" /\ target = "EvolutionAdapter" /\ ret = Bool(TRUE)
  /\ Handles("MetaAdapter", arg)

\* C9: canHandle and validate of a built-in adapter return a boolean and never
\* throw; canHandle is false for null, undefined, arrays, primitives and the
\* empty object; validate is false whenever canHandle is false, and false for
\* an accepted envelope whose nested structure is malformed.
C9_GuardsAreTotal ==
  (op \in {"canHandle", "validate"} /\ target \in BuiltIn) =>
    /\ ret \in {Bool(TRUE), Bool(FALSE)}
    /\ (op = "canHandle"
          /\ (arg.t \in {"null", "undef", "arr", "bool", "num", "nan", "str"}
                \/ arg = EmptyObj))
         => ret = Bool(FALSE)
    /\ (op = "validate" /\ ~Handles(target, arg)) => ret = Bool(FALSE)
    /\ (op = "validate" /\ target = "MetaAdapter" /\ Handles(target, arg)
          /\ ~IsObject(FirstValue))
         => ret = Bool(FALSE)

\* C9, its case: Meta accepts an envelope whose first entry is not an object,
\* and validate answers false
C9_Witness ==
  /\ op = "validate" /\ target = "MetaAdapter"
  /\ Handles("MetaAdapter", arg)
  /\ ~IsObject(Idx(Prop(arg, "entry"), 0))
  /\ ret = Bool(FALSE)

\* C10: normalize of a built-in adapter never throws: it returns a
\* NormalizationResult, and when the extraction of an accepted, valid payload
\* raises a fault, the result is a PARSE_ERROR whose details are the fault's
\* message; a Meta payload with a message and no metadata object is such a case.
C10_FaultsBecomeParseError ==
  (op = "normalize" /\ target \in BuiltIn) =>
    /\ IsResult(ret)
    /\ (Handles(target, arg) /\ AdapterValidate(target, arg) = Bool(TRUE)) =>
         \A id \in GeneratedIds :
           LET extracted == AdapterExtract(target, arg, id)
           IN IF IsThrow(extracted)
              THEN /\ FailedWith(ret, "PARSE_ERROR")
                   /\ Prop(Prop(ret, "error"), "details") = ErrorDetails(extracted.x)
                   /\ NonEmptyString(Prop(Prop(ret, "error"), "details"))
              ELSE ~FailedWith(ret, "PARSE_ERROR")
    /\ (target = "MetaAdapter" /\ Handles(target, arg)
          /\ NonEmptyArray(OptProp(FirstValue, "messages"))
          /\ IsObject(OptIdx(OptProp(FirstValue, "messages"), 0))
          /\ IsNullish(OptProp(FirstValue, "metadata")))
         => FailedWith(ret, "PARSE_ERROR")

\* C10, its case: a Meta payload with a message and no metadata object was
\* normalized into a PARSE_ERROR
C10_Witness ==
  /\ op = "normalize" /\ target = "MetaAdapter"
  /\ NonEmptyArray(OptProp(FirstValue, "messages"))
  /\ IsNullish(OptProp(FirstValue, "metadata"))
  /\ FailedWith(ret, "PARSE_ERROR")

----------------------------------------------------------------------------
(* Properties of the registry, under Spec *)

\* the adapter at place i of the table answers true for the payload
Accepts(i) == Handles(adapters[i].impl, arg)

\* the adapter at place i is the one a search of the table stops at with a match
Selected(i) ==
  /\ Accepts(i)
  /\ \A j \in 1..(i - 1) : AdapterCanHandle(adapters[j].impl, arg) = Bool(FALSE)

\* the details of a failed result
DetailsOf(r) == Prop(Prop(r, "error"), "details")

\* the top-level keys of a payload, as a set of strings
TopLevelKeys(payload) ==
  IF payload.t = "obj" THEN {Word(k) : k \in DOMAIN payload.o} ELSE {}

\* the elements of an array value
Elements(x) == {x.a[i] : i \in DOMAIN x.a}

\* C3: registry.normalize of a payload that is neither null nor undefined and
\* that no registered adapter's canHandle answers true for returns
\* UNKNOWN_PROVIDER, with the registered providers in order and the top-level
\* keys of the payload (none for a payload that is not an object) as details.
C3_UnknownProviderDetails ==
  (op = "normalize" /\ arg \notin {Null, Undef}
     /\ \A i \in DOMAIN adapters : ~Accepts(i)) =>
    /\ FailedWith(ret, "UNKNOWN_PROVIDER")
    /\ Prop(DetailsOf(ret), "registeredProviders")
         = Arr([i \in DOMAIN adapters |-> Word(adapters[i].provider)])
    /\ Prop(DetailsOf(ret), "payloadKeys").t = "arr"
    /\ Elements(Prop(DetailsOf(ret), "payloadKeys")) = TopLevelKeys(arg)
    /\ Len(Prop(DetailsOf(ret), "payloadKeys").a) = Cardinality(TopLevelKeys(arg))

\* C4: registry.normalize of null or undefined returns INVALID_PAYLOAD, with no
\* details, whatever the table holds: nothing, an adapter that accepts every
\* payload, or an adapter whose canHandle throws on null.
C4_AbsentPayloadFailsFast ==
  (op = "normalize" /\ arg \in {Null, Undef}) =>
    /\ FailedWith(ret, "INVALID_PAYLOAD")
    /\ Prop(Prop(ret, "error"), "message")
         = Word("Payload nao pode ser null ou undefined")
    /\ DOMAIN Prop(ret, "error").o = {"code", "message"}

\* C4, its case: null was normalized while an adapter that accepts null was
\* registered
C4_Witness ==
  /\ op = "normalize" /\ arg = Null
  /\ \E i \in DOMAIN adapters : adapters[i].impl = "GreedyAdapter" /\ Accepts(i)
  /\ FailedWith(ret, "INVALID_PAYLOAD")

\* C5: registry.normalize and registry.normalizeWithProvider return a
\* NormalizationResult, whatever adapters are registered: no exception of an
\* adapter's canHandle or normalize reaches the caller.
C5_NoExceptionEscapes ==
  (op \in {"normalize", "normalizeWithProvider"}) => (~IsThrow(ret) /\ IsResult(ret))

\* C6: when registry.normalize selects an adapter, a throw of that adapter's
\* normalize becomes PROCESSING_ERROR with a message naming the adapter's
\* provider and the cause as details (the message of an Error, the thrown
\* value otherwise), and a normal return is passed on unchanged.
C6_SelectedAdapterOutcome ==
  (op = "normalize" /\ arg \notin {Null, Undef}) =>
    \A i \in DOMAIN adapters :
      Selected(i) =>
        \E id \in GeneratedIds :
          LET outcome == AdapterNormalize(adapters[i].impl, arg, id)
          IN IF IsThrow(outcome)
             THEN /\ FailedWith(ret, "PROCESSING_ERROR")
                  /\ Prop(Prop(ret, "error"), "message")
                       = Str(<<"Erro ao processar payload com adapter ",
                               adapters[i].provider>>)
                  /\ DetailsOf(ret) = IF outcome.x.t = "err" THEN outcome.x.m
                                      ELSE outcome.x
             ELSE ret = outcome

\* C6, its case: the selected adapter's normalize threw an Error, and the
\* result carries its message
C6_Witness ==
  /\ op = "normalize"
  /\ \E i \in DOMAIN adapters : Selected(i) /\ adapters[i].impl = "GreedyAdapter"
  /\ FailedWith(ret, "PROCESSING_ERROR")
  /\ DetailsOf(ret) = Word("boom")

\* the provider an identifyProvider or findAdapter result names
ProviderNamed(r) ==
  CASE r.t = "adapter" -> r.provider
    [] r.t = "obj" -> r.o.provider.s[1]
    [] OTHER -> "none"

\* C7: identifyProvider and findAdapter select the first adapter, in the order
\* in which the currently registered adapters were registered, whose canHandle
\* is true, and return {unknown, 0} and undefined when none is.  On a call
\* that follows a register: the adapter just registered is the last in that
\* order, so it is not the one selected when another registered adapter
\* accepts the payload.
C7_RegistrationOrder ==
  [][(op' \in {"identifyProvider", "findAdapter"}) =>
       /\ (\A i \in DOMAIN adapters : ~Accepts(i)) =>
            ret' = IF op' = "findAdapter" THEN Undef
                   ELSE Obj([provider |-> Word("unknown"), confidence |-> Num(0)])
       /\ (op = "register"
             /\ \E i \in DOMAIN adapters :
                  adapters[i].provider # target /\ Accepts(i)) =>
            (~IsThrow(ret') /\ ProviderNamed(ret') # target)]_vars

----------------------------------------------------------------------------
(* Properties of the results, under Spec and SpecAdapters *)

\* the type ErrorCode
ErrorCodes ==
  {"INVALID_PAYLOAD", "UNKNOWN_PROVIDER", "MISSING_REQUIRED_FIELD",
   "UNSUPPORTED_MESSAGE_TYPE", "PARSE_ERROR", "PROCESSING_ERROR"}

\* r has a field k that holds something
Carries(r, k) == k \in DOMAIN r.o /\ r.o[k] # Undef

\* r is one of the two shapes of a NormalizationResult
WellShaped(r) ==
  /\ IsResult(r)
  /\ r.o.success = Bool(TRUE) =>
       (Carries(r, "message") /\ r.o.message.t = "obj" /\ ~Carries(r, "error"))
  /\ r.o.success = Bool(FALSE) =>
       /\ Carries(r, "error") /\ ~Carries(r, "message")
       /\ r.o.error.t = "obj"
       /\ \E code \in ErrorCodes : Prop(r.o.error, "code") = Word(code)

\* C11: every result that normalize of a built-in adapter, registry.normalize
\* or registry.normalizeWithProvider returns is success:true with a message
\* and no error, or success:false with an error whose code is one of the six
\* codes and no message.
C11_ExactlyOneShape ==
  (op \in {"normalize", "normalizeWithProvider"} /\ ~IsThrow(ret)) => WellShaped(ret)

\* C11, its case: a built-in adapter, asked through the registry for a payload
\* of another provider, returned an error and no message
C11_Witness ==
  /\ op = "normalizeWithProvider"
  /\ \E i \in DOMAIN adapters :
       adapters[i].provider = target /\ adapters[i].impl \in BuiltIn
  /\ FailedWith(ret, "INVALID_PAYLOAD")
  /\ ~Carries(ret, "message")

\* the timestamp of a successful result
TimestampOf(r) == Prop(Prop(r, "message"), "timestamp")

\* the record of a Meta payload the message is built from: the first message,
\* or the first status when there are no messages
MetaRecord ==
  IF NonEmptyArray(OptProp(FirstValue, "messages"))
  THEN OptIdx(OptProp(FirstValue, "messages"), 0)
  ELSE OptIdx(OptProp(FirstValue, "statuses"), 0)

\* a string of decimal digits only
IsDigitString(x) ==
  x.t = "str" /\ x.s # <<>> /\ \A i \in DOMAIN x.s : IsDigit(x.s[i])

\* r = s * 1000, on numbers held as whole millions and a rest
IsThousandTimes(r, s) ==
  /\ r.t = "num" /\ s.t = "num"
  /\ r.neg = s.neg
  /\ r.hi = s.hi * 1000 + (s.lo \div 1000)
  /\ r.lo = (s.lo % 1000) * 1000

\* C12: the timestamp of a successful result is, for Meta, the seconds of the
\* provider's timestamp times 1000 (1677234567 gives 1677234567000); for
\* Z-API, momment as it is; for Evolution, a numeric messageTimestamp below
\* 10,000,000,000 times 1000 and one at or above it unchanged (9,999,999,999
\* gives 9,999,999,999,000 and 10,000,000,000 stays).
C12_TimestampInMilliseconds ==
  (op = "normalize" /\ target \in BuiltIn /\ Succeeded(ret)) =>
    LET seconds == OptProp(MetaRecord, "timestamp")
        momment == OptProp(arg, "momment")
        stamp == OptProp(OptProp(arg, "data"), "messageTimestamp")
    IN /\ (target = "MetaAdapter" /\ IsDigitString(seconds)) =>
            /\ IsThousandTimes(TimestampOf(ret), ParseInt(seconds))
            /\ seconds = Str(SecondsText) => TimestampOf(ret) = MillisNumber
       /\ target = "ZApiAdapter" => TimestampOf(ret) = momment
       /\ (target = "EvolutionAdapter" /\ stamp.t = "num") =>
            /\ (stamp.neg \/ stamp.hi < 10000) => IsThousandTimes(TimestampOf(ret), stamp)
            /\ ~(stamp.neg \/ stamp.hi < 10000) => TimestampOf(ret) = stamp
            /\ stamp = BigNum(FALSE, 9999, 999999)
                 => TimestampOf(ret) = BigNum(FALSE, 9999999, 999000)
            /\ stamp = BigNum(FALSE, 10000, 0)
                 => TimestampOf(ret) = BigNum(FALSE, 10000, 0)

\* C12, its case: Evolution normalized a message stamped 10,000,000,000 and
\* left the stamp as it was
C12_Witness ==
  /\ op = "normalize" /\ target = "EvolutionAdapter" /\ Succeeded(ret)
  /\ OptProp(OptProp(arg, "data"), "messageTimestamp") = BigNum(FALSE, 10000, 0)
  /\ TimestampOf(ret) = BigNum(FALSE, 10000, 0)

----------------------------------------------------------------------------
(* Properties of the phone numbers *)

\* C13: normalizePhoneNumber is idempotent, in BaseWebhookAdapter and in
\* utils/helpers: normalizing the result of a call again gives that result.
C13_PhoneIdempotent ==
  (op = "normalizePhoneNumber") =>
    IF target = "helpers" THEN HelperNormalizePhoneNumber(ret) = ret
    ELSE NormalizePhoneNumber(ret) = ret

----------------------------------------------------------------------------
(* Properties of the messages of the built-in adapters, under SpecAdapters *)

\* the phone number of a contact of a successful result
PhoneOf(r, who) == Prop(Prop(Prop(r, "message"), who), "phoneNumber")

\* C14: in every successful result of a built-in adapter's normalize,
\* from.phoneNumber and to.phoneNumber are strings of decimal digits only.
C14_PhonesAreDigitsOnly ==
  (op = "normalize" /\ target \in BuiltIn /\ Succeeded(ret)) =>
    \A who \in {"from", "to"} :
      /\ PhoneOf(ret, who).t = "str"
      /\ \A i \in DOMAIN PhoneOf(ret, who).s : IsDigit(PhoneOf(ret, who).s[i])

----------------------------------------------------------------------------
(* Properties of the registration table, under Spec *)

\* the places of the table that hold an entry for the provider
PlacesOf(table, provider) == {i \in DOMAIN table : table[i].provider = provider}

\* the adapter the table binds to the provider, or none
BoundTo(table, provider) ==
  IF PlacesOf(table, provider) = {} THEN "none"
  ELSE table[CHOOSE i \in PlacesOf(table, provider) : TRUE].impl

C16_ResetRestoresDefaults ==
  [][(op' = "reset") =>
       /\ adapters' = <<[provider |-> "meta", impl |-> "MetaAdapter"],
                        [provider |-> "evolution", impl |-> "EvolutionAdapter"],
                        [provider |-> "z-api", impl |-> "ZApiAdapter"]>>
       /\ \A i \in DOMAIN adapters :
            adapters[i].impl \in Custom =>
              \A j \in DOMAIN adapters' : adapters'[j].impl # adapters[i].impl]_vars

\* C16, its case: the registry was reset and holds the three built-in adapters
C16_Witness ==
  /\ op = "reset"
  /\ RegisteredProviders(adapters) = Arr(<<Word("meta"), Word("evolution"), Word("z-api")>>)
  /\ \A i \in DOMAIN adapters : adapters[i].impl \in BuiltIn

\* C17: the table changes only in register, unregister and reset steps:
\* normalize, normalizeWithProvider, identifyProvider, findAdapter, getAdapter
\* and getRegisteredProviders leave its entries and their order as they were,
\* whether they return a success, return an error or throw.
C17_OnlyRegistrationChangesTable ==
  [][(op' \in {"normalize", "normalizeWithProvider", "identifyProvider",
               "findAdapter", "getAdapter", "getRegisteredProviders"})
       => adapters' = adapters]_vars

\* C17, its case: a normalize that ended in an error was run on a table that
\* holds a custom adapter, and the custom adapter is still there
C17_Witness ==
  /\ op = "normalize"
  /\ FailedWith(ret, "PROCESSING_ERROR")
  /\ Len(adapters) = 4
  /\ BoundTo(adapters, "custom") \in Custom

\* C18: normalizeWithProvider detects nothing.  It fails with UNKNOWN_PROVIDER
\* exactly when the table has no entry for the provider; otherwise what it
\* returns is what normalize of the adapter bound to the provider returns, so
\* that the payload of another provider gets that adapter's INVALID_PAYLOAD.
C18_NoDetection ==
  (op = "normalizeWithProvider") =>
    /\ FailedWith(ret, "UNKNOWN_PROVIDER") <=> (BoundTo(adapters, target) = "none")
    /\ BoundTo(adapters, target) # "none" =>
         \E id \in GeneratedIds :
           ret = AdapterNormalize(BoundTo(adapters, target), arg, id)
    /\ (BoundTo(adapters, target) \in BuiltIn
          /\ arg \in Examples /\ arg # ExampleOf(BoundTo(adapters, target)))
         => FailedWith(ret, "INVALID_PAYLOAD")

\* C18, its case: the Evolution example was handed to the adapter of meta, and
\* the Meta adapter rejected it
C18_Witness ==
  /\ op = "normalizeWithProvider" /\ target = "meta"
  /\ BoundTo(adapters, "meta") = "MetaAdapter"
  /\ arg = EvolutionExample
  /\ FailedWith(ret, "INVALID_PAYLOAD")

\* the first message of a Meta payload, its metadata and its first contact
MetaFirstMessage == OptIdx(OptProp(FirstValue, "messages"), 0)
MetaFirstMetadata == OptProp(FirstValue, "metadata")
MetaFirstContact == OptIdx(OptProp(FirstValue, "contacts"), 0)

\* a Meta payload whose first change carries a non-empty messages array and a
\* metadata object was handed to the Meta adapter's normalize
MetaInboundCase ==
  /\ op = "normalize" /\ target = "MetaAdapter"
  /\ Handles("MetaAdapter", arg)
  /\ NonEmptyArray(OptProp(FirstValue, "messages"))
  /\ IsObject(MetaFirstMetadata)

\* a value normalizePhoneNumber takes: a string, or nothing at all
PhoneLike(x) == x.t = "str" \/ ~Truthy(x)

\* the fields of a received Meta message that the mapping fixes, with the
\* sender's name and the text of a text message as given
MetaInboundFields(name, text) ==
  LET message == Prop(ret, "message")
  IN /\ Succeeded(ret)
     /\ Prop(message, "provider") = Word("meta")
     /\ Prop(message, "direction") = Word("inbound")
     /\ Prop(message, "status") = Word("received")
     /\ Prop(message, "externalId") = Prop(MetaFirstMessage, "id")
     /\ PhoneOf(ret, "from") = NormalizePhoneNumber(Prop(MetaFirstMessage, "from"))
     /\ Prop(Prop(message, "from"), "name") = name
     /\ PhoneOf(ret, "to")
          = NormalizePhoneNumber(Prop(MetaFirstMetadata, "display_phone_number"))
     /\ Prop(message, "instanceId") = Prop(MetaFirstMetadata, "phone_number_id")
     /\ Prop(MetaFirstMessage, "type") = Word("text") =>
          Prop(message, "content") = Obj([type |-> Word("text"), text |-> text])

\* C20, as stated: whenever the first change of a Meta payload carries a
\* non-empty messages array and a metadata object, normalize succeeds with
\* provider meta, direction inbound, status received, the first message's id,
\* the canonical sender and business numbers, the first contact's profile name
\* (null when absent), phone_number_id as instanceId and, for a text message,
\* the content {type: text, text: text.body}.
C20_MetaInboundMapping ==
  MetaInboundCase =>
    LET name == OptProp(OptProp(MetaFirstContact, "profile"), "name")
    IN MetaInboundFields(IF IsNullish(name) THEN Null ELSE name,
                         OptProp(OptProp(MetaFirstMessage, "text"), "body"))

\* C20, amended: the mapping holds when, in addition, the first message is
\* not null and the sender and business numbers are strings or missing; a
\* missing or empty profile name gives null and a missing or empty text body
\* gives the empty string.
C20_MetaInboundMappingOfStrings ==
  (/\ MetaInboundCase
   /\ ~IsNullish(MetaFirstMessage)
   /\ PhoneLike(Prop(MetaFirstMessage, "from"))
   /\ PhoneLike(Prop(MetaFirstMetadata, "display_phone_number")))
  => MetaInboundFields(
       Or(OptProp(OptProp(MetaFirstContact, "profile"), "name"), Null),
       Or(OptProp(OptProp(MetaFirstMessage, "text"), "body"), EmptyStr))

\* C20, its case: the text message of the test suite was normalized
C20_Witness ==
  /\ MetaInboundCase
  /\ arg = MetaExample
  /\ Prop(Prop(Prop(ret, "message"), "content"), "text") = Greeting
  /\ Prop(Prop(Prop(ret, "message"), "from"), "name") = Word("Joao Silva")
  /\ PhoneOf(ret, "from") = Str(CustomerNumber)

----------------------------------------------------------------------------
(* Properties of concurrent deliveries, under SpecDeliveries *)

\* s is an initial part of t
IsPrefix(s, t) == Len(s) <= Len(t) /\ SubSeq(t, 1, Len(s)) = s

\* response is what handleWebhook returns for the body when it is the only
\* call running, for some generated id
ReturnsAsAlone(body, response) ==
  \E id \in GeneratedIds :
    LET result == NormalizeOf(adapters, body, id)
    IN IF body = Undef THEN IsThrow(response)
       ELSE IF ~Truthy(body)
            THEN response = Obj([success |-> Bool(FALSE),
                                 error |-> Word("Payload vazio ou invalido")])
       ELSE IF Succeeded(result)
            THEN response = Obj([success |-> Bool(TRUE),
                                 messageId |-> Prop(Prop(result, "message"), "id"),
                                 provider |-> Prop(Prop(result, "message"), "provider")])
       ELSE response = Obj([success |-> Bool(FALSE),
                            error |-> Prop(Prop(result, "error"), "message"),
                            provider |-> Prop(IdentifyProviderOf(adapters, body), "provider")])

\* C19: when several deliveries are handled at once against a registry that is
\* not changed meanwhile, whatever the order of their steps, every delivery
\* that has returned returned what it returns when run alone (apart from the
\* generated id), a step of one delivery leaves the body, the result and the
\* response of every other delivery as they were, and the rows already stored
\* stay as they are.
C19_DeliveriesDoNotInterfere ==
  [][
     /\ \A d \in Deliveries :
          /\ deliveries'[d].pc = "done" =>
               ReturnsAsAlone(deliveries'[d].body, deliveries'[d].response)
          /\ deliveries'[d] # deliveries[d] =>
               \A e \in Deliveries \ {d} : deliveries'[e] = deliveries[e]
     /\ IsPrefix(database.messages, database'.messages)
     /\ IsPrefix(database.contacts, database'.contacts)
    ]_vars

\* C19, its case: the first delivery, of the Meta example, has returned its
\* response while a second delivery, which stored its message after the first
\* did, is still in flight
C19_Witness ==
  /\ deliveries # <<>>
  /\ deliveries[1].body = MetaExample /\ deliveries[1].pc = "done"
  /\ Prop(deliveries[1].response, "provider") = Word("meta")
  /\ deliveries[2].pc = "saveMessage"
  /\ Len(database.messages) = 2
  /\ database.messages[1].col_2 = Word("meta")
  /\ database.messages[2].col_2 # Word("meta")

----------------------------------------------------------------------------
(* Properties of direction, status and content, under SpecAdapters *)

\* the message of a successful result, and a field of it
MessageOf(r) == Prop(r, "message")
DirectionOf(r) == Prop(MessageOf(r), "direction")
StatusOf(r) == Prop(MessageOf(r), "status")
ContentTypeOf(r) == Prop(Prop(MessageOf(r), "content"), "type")

\* the status table of Z-API, by the status in capitals
ZApiStatusTable ==
  [RECEIVED |-> "received", SENT |-> "sent", DELIVERED |-> "delivered",
   READ |-> "read", PLAYED |-> "read", FAILED |-> "failed", PENDING |-> "pending"]

\* the entry of the table for a status whatever its case, pending when the
\* table has none or there is no status
ZApiStatusFor(status) ==
  LET upper == OptToUpperCase(status)
  IN IF upper.t = "str" /\ Len(upper.s) = 1 /\ upper.s[1] \in DOMAIN ZApiStatusTable
     THEN Word(ZApiStatusTable[upper.s[1]])
     ELSE Word("pending")

\* C21: a message of the Z-API adapter is outbound exactly when fromMe is
\* true and inbound otherwise; an inbound message has status received whatever
\* the payload's status; an outbound message has the status the table gives
\* for the payload's status, compared without regard to case, and pending when
\* the table has no entry or the payload has no status.
C21_ZApiDirectionAndStatus ==
  (op = "normalize" /\ target = "ZApiAdapter" /\ Succeeded(ret)) =>
    /\ DirectionOf(ret) = (IF Prop(arg, "fromMe") = Bool(TRUE)
                           THEN Word("outbound") ELSE Word("inbound"))
    /\ DirectionOf(ret) = Word("inbound") => StatusOf(ret) = Word("received")
    /\ DirectionOf(ret) = Word("outbound") =>
         StatusOf(ret) = ZApiStatusFor(Prop(arg, "status"))

\* C21, its case: an outbound message whose status PLAYED became read
C21_Witness ==
  /\ op = "normalize" /\ target = "ZApiAdapter" /\ Succeeded(ret)
  /\ Prop(arg, "fromMe") = Bool(TRUE)
  /\ Prop(arg, "status") = Word("PLAYED")
  /\ DirectionOf(ret) = Word("outbound")
  /\ StatusOf(ret) = Word("read")

\* the first change of a Meta payload carries messages: value.messages has a
\* length greater than 0
MetaHasMessages ==
  /\ Truthy(OptProp(FirstValue, "messages"))
  /\ GtZero(Prop(OptProp(FirstValue, "messages"), "length"))

\* the status string of the first status of a Meta payload
MetaFirstStatus == OptProp(OptIdx(OptProp(FirstValue, "statuses"), 0), "status")

\* C22: a successful result of the Meta adapter is inbound with status
\* received exactly when the first change carries messages, also when it
\* carries statuses too; otherwise it is outbound, its content type is unknown
\* and its status is the Meta status string when that is sent, delivered, read
\* or failed, and pending for any other value.
C22_MetaDirectionAndStatus ==
  (op = "normalize" /\ target = "MetaAdapter" /\ Succeeded(ret)) =>
    IF MetaHasMessages
    THEN DirectionOf(ret) = Word("inbound") /\ StatusOf(ret) = Word("received")
    ELSE /\ DirectionOf(ret) = Word("outbound")
         /\ ContentTypeOf(ret) = Word("unknown")
         /\ StatusOf(ret) =
              (IF MetaFirstStatus \in {Word("sent"), Word("delivered"), Word("read"),
                                       Word("failed")}
               THEN MetaFirstStatus ELSE Word("pending"))

\* data.key of an Evolution payload
EvolutionKeyOf(payload) == Prop(Prop(payload, "data"), "key")

\* C23: in every successful result of the Evolution adapter the status is
\* sent or received and goes with the direction: fromMe true gives an outbound
\* message with status sent and the number of remoteJid on the to side; fromMe
\* false gives an inbound message with status received and the number of
\* remoteJid and pushName on the from side.
C23_EvolutionDirectionAndStatus ==
  (op = "normalize" /\ target = "EvolutionAdapter" /\ Succeeded(ret)) =>
    LET fromMe == Prop(EvolutionKeyOf(arg), "fromMe")
        number == NormalizePhoneNumber(Prop(EvolutionKeyOf(arg), "remoteJid"))
        pushName == Prop(Prop(arg, "data"), "pushName")
    IN /\ <<DirectionOf(ret), StatusOf(ret)>>
            \in {<<Word("outbound"), Word("sent")>>, <<Word("inbound"), Word("received")>>}
       /\ fromMe = Bool(TRUE) =>
            /\ DirectionOf(ret) = Word("outbound")
            /\ PhoneOf(ret, "to") = number
       /\ fromMe = Bool(FALSE) =>
            /\ DirectionOf(ret) = Word("inbound")
            /\ PhoneOf(ret, "from") = number
            /\ Prop(Prop(MessageOf(ret), "from"), "name")
                 = (IF Truthy(pushName) THEN pushName ELSE Null)

\* C23, its case: a message sent by the business itself was normalized
C23_Witness ==
  /\ op = "normalize" /\ target = "EvolutionAdapter" /\ Succeeded(ret)
  /\ Prop(EvolutionKeyOf(arg), "fromMe") = Bool(TRUE)
  /\ StatusOf(ret) = Word("sent")
  /\ PhoneOf(ret, "to") = Str(CustomerNumber)
  /\ PhoneOf(ret, "from") = Str(BusinessNumber)

\* the variant fields of data.message of Evolution in the order they are
\* probed, and the content type each gives
EvolutionVariants ==
  <<"conversation", "extendedTextMessage", "imageMessage", "audioMessage",
    "videoMessage", "documentMessage", "locationMessage">>
EvolutionVariantType ==
  [conversation |-> "text", extendedTextMessage |-> "text", imageMessage |-> "image",
   audioMessage |-> "audio", videoMessage |-> "video", documentMessage |-> "document",
   locationMessage |-> "location"]

\* the content types messageType maps to when no variant is present
EvolutionTypeTable ==
  [conversation |-> "text", extendedTextMessage |-> "text", imageMessage |-> "image",
   audioMessage |-> "audio", videoMessage |-> "video", documentMessage |-> "document",
   locationMessage |-> "location", contactMessage |-> "contact",
   stickerMessage |-> "sticker", reactionMessage |-> "reaction"]

\* the positions of the variants that data.message carries
EvolutionPresent(message) ==
  {i \in DOMAIN EvolutionVariants : Truthy(Prop(message, EvolutionVariants[i]))}

\* C24: the content type of a successful Evolution result is unknown when
\* data.message is absent; otherwise it is the type of the first variant, in
\* the order conversation, extendedTextMessage, imageMessage, audioMessage,
\* videoMessage, documentMessage, locationMessage, that data.message carries;
\* and when it carries none of them it is the type messageType maps to,
\* unknown when messageType is not in the table.
C24_EvolutionContentType ==
  (op = "normalize" /\ target = "EvolutionAdapter" /\ Succeeded(ret)) =>
    LET message == Prop(Prop(arg, "data"), "message")
        messageType == Prop(Prop(arg, "data"), "messageType")
        present == EvolutionPresent(message)
        first == CHOOSE i \in present : \A j \in present : i <= j
    IN ContentTypeOf(ret) =
         (IF ~Truthy(message) THEN Word("unknown")
          ELSE IF present # {} THEN Word(EvolutionVariantType[EvolutionVariants[first]])
          ELSE IF messageType.t = "str" /\ Len(messageType.s) = 1
                    /\ messageType.s[1] \in DOMAIN EvolutionTypeTable
               THEN Word(EvolutionTypeTable[messageType.s[1]])
          ELSE Word("unknown"))

\* the event of an Evolution payload is one of the four message events
EvolutionAllowed(payload) ==
  Prop(payload, "event") \in {Word("messages.upsert"), Word("messages.update"),
                              Word("message.ack"), Word("send.message")}

\* C25: normalize of the Evolution adapter fails with UNSUPPORTED_MESSAGE_TYPE
\* exactly when canHandle and validate are both true and the event is none of
\* messages.upsert, messages.update, message.ack, send.message; an event
\* outside this list on a payload that lacks required fields is reported as
\* MISSING_REQUIRED_FIELD, and no event outside the list yields a message.
C25_UnsupportedEvents ==
  (op = "normalize" /\ target = "EvolutionAdapter") =>
    LET accepted == Handles("EvolutionAdapter", arg)
        valid == EvolutionValidate(arg) = Bool(TRUE)
    IN /\ FailedWith(ret, "UNSUPPORTED_MESSAGE_TYPE")
            <=> (accepted /\ valid /\ ~EvolutionAllowed(arg))
       /\ (accepted /\ ~valid /\ ~EvolutionAllowed(arg))
            => FailedWith(ret, "MISSING_REQUIRED_FIELD")
       /\ (IsObject(arg) /\ ~EvolutionAllowed(arg)) => ~Succeeded(ret)

\* C25, its case: a well-formed payload of an event that is no message event
\* was refused
C25_Witness ==
  /\ op = "normalize" /\ target = "EvolutionAdapter"
  /\ Handles("EvolutionAdapter", arg) /\ EvolutionValidate(arg) = Bool(TRUE)
  /\ Prop(arg, "event") = Word("presence.update")
  /\ FailedWith(ret, "UNSUPPORTED_MESSAGE_TYPE")
  /\ ~Carries(ret, "message")

\* C25, its other case: an event that is no message event, on a payload that
\* lacks required fields
C25_MissingFieldsFirst ==
  /\ op = "normalize" /\ target = "EvolutionAdapter"
  /\ Handles("EvolutionAdapter", arg) /\ EvolutionValidate(arg) = Bool(FALSE)
  /\ ~EvolutionAllowed(arg)
  /\ FailedWith(ret, "MISSING_REQUIRED_FIELD")

\* the sub-objects of a Z-API payload in the order they are probed
ZApiKinds == <<"text", "image", "audio", "video", "document", "location">>

\* the content type when the kinds at the positions present are carried: the
\* first of them in the order, unknown when there is none
ZApiTypeOfFirst(present) ==
  IF present = {} THEN Word("unknown")
  ELSE Word(ZApiKinds[CHOOSE i \in present : \A j \in present : i <= j])

\* C26, as stated: the content type of a successful Z-API result is the first
\* of text, image, audio, video, document, location whose sub-object the
\* payload carries, so that a payload with a text sub-object gives text even
\* when it carries a media sub-object too, and unknown when it carries none.
C26_ZApiFirstPresentWins ==
  (op = "normalize" /\ target = "ZApiAdapter" /\ Succeeded(ret)) =>
    ContentTypeOf(ret)
      = ZApiTypeOfFirst({i \in DOMAIN ZApiKinds : Truthy(Prop(arg, ZApiKinds[i]))})

\* C26, amended: text wins when text.message is not empty; a text sub-object
\* with an empty or missing message is passed over, and the first of image,
\* audio, video, document, location that is carried decides.
C26_ZApiFirstFilledWins ==
  (op = "normalize" /\ target = "ZApiAdapter" /\ Succeeded(ret)) =>
    ContentTypeOf(ret)
      = ZApiTypeOfFirst({i \in DOMAIN ZApiKinds :
                           IF ZApiKinds[i] = "text"
                           THEN Truthy(OptProp(Prop(arg, "text"), "message"))
                           ELSE Truthy(Prop(arg, ZApiKinds[i]))})

\* C26, its case: a payload that carries a text and an image gave a text
C26_Witness ==
  /\ op = "normalize" /\ target = "ZApiAdapter" /\ Succeeded(ret)
  /\ Truthy(OptProp(Prop(arg, "text"), "message"))
  /\ Truthy(Prop(arg, "image"))
  /\ ContentTypeOf(ret) = Word("text")

\* C27: PROCESSING_ERROR comes from the registry alone: no built-in adapter's
\* own normalize returns a result whose code is PROCESSING_ERROR, for any
\* payload.
C27_NoProcessingErrorFromAdapters ==
  (op = "normalize" /\ target \in BuiltIn) => ~FailedWith(ret, "PROCESSING_ERROR")

----------------------------------------------------------------------------
(* Properties of the storage of a delivery, under SpecStorage *)

\* normalization of the body succeeds (the generated id has no part in it)
Normalizes(body) ==
  Succeeded(NormalizeOf(adapters, body, CHOOSE id \in GeneratedIds : TRUE))

\* the response says success: true
SaysSuccess(response) == Prop(response, "success") = Bool(TRUE)

\* the step hands a message row to the database: saveMessage is called
SavesMessage == Len(database'.messages) = Len(database.messages) + 1

\* C28: handleWebhook calls saveMessage once when the normalization of the
\* body succeeded, and not at all when the body is empty or its normalization
\* failed; it answers success: true only after saveMessage has completed; a
\* rejected saveMessage gives a success: false answer; and once a delivery
\* has been answered the handler does nothing more for it.
C28_SavedOnceWhenNormalized ==
  [][
     \A d \in DOMAIN deliveries :
       /\ (deliveries[d].pc = "pending" /\ deliveries'[d].pc # "pending") =>
            IF Truthy(deliveries[d].body) /\ Normalizes(deliveries[d].body)
            THEN SavesMessage
            ELSE database'.messages = database.messages
       /\ deliveries[d].pc # "pending" => database'.messages = database.messages
       /\ SaysSuccess(deliveries'[d].response) =>
            deliveries[d].pc \in {"upsertContact", "done"}
       /\ QueryRejects(d) => Prop(deliveries'[d].response, "success") = Bool(FALSE)
       /\ deliveries[d].pc = "done" => deliveries'[d] = deliveries[d]
    ]_vars

\* the field of a payload that holds the customer's number, by the provider
\* whose adapter normalized it: Meta message from or status recipient_id,
\* Evolution key.remoteJid, Z-API phone
CustomerField(body, provider) ==
  CASE provider = Word("meta") ->
         LET value == MetaFirstValueOpt(body)
         IN IF Truthy(OptProp(value, "messages"))
                 /\ GtZero(Prop(OptProp(value, "messages"), "length"))
            THEN OptProp(OptIdx(OptProp(value, "messages"), 0), "from")
            ELSE OptProp(OptIdx(OptProp(value, "statuses"), 0), "recipient_id")
    [] provider = Word("evolution") -> Prop(EvolutionKeyOf(body), "remoteJid")
    [] provider = Word("z-api") -> Prop(body, "phone")

\* the field of a payload that holds the business's own number: Meta
\* display_phone_number, Evolution destination; a Z-API payload has none
BusinessField(body, provider) ==
  CASE provider = Word("meta") ->
         OptProp(OptProp(MetaFirstValueOpt(body), "metadata"), "display_phone_number")
    [] provider = Word("evolution") -> Prop(body, "destination")
    [] provider = Word("z-api") -> Undef

\* C29: the contact that saveMessage upserts for a message of a built-in
\* adapter is the customer: its number is the canonical form of the payload's
\* customer field (Meta message from or status recipient_id, Evolution
\* key.remoteJid, Z-API phone), is not empty and is not the business's own
\* number; a message whose customer number is empty upserts no contact; and
\* the row of the message is written before the contact.
C29_ContactIsTheCustomer ==
  \A d \in DOMAIN deliveries :
    LET body == deliveries[d].body
        message == Prop(deliveries[d].result, "message")
        provider == Prop(message, "provider")
        customer == NormalizePhoneNumber(CustomerField(body, provider))
    IN /\ \A i \in DOMAIN database.contacts :
            /\ database.contacts[i].col_0 = customer
            /\ Truthy(database.contacts[i].col_0)
            /\ database.contacts[i].col_0
                 # NormalizePhoneNumber(BusinessField(body, provider))
            /\ database.messages # <<>>
       /\ (deliveries[d].pc = "upsertContact" /\ ~Truthy(customer))
            => database.contacts = <<>>
       /\ (deliveries[d].pc = "upsertContact" /\ Truthy(customer))
            => Len(database.contacts) = 1

\* C29, its case: a message the business sent through Evolution was saved,
\* and the contact upserted is the customer it was sent to
C29_Witness ==
  /\ Len(deliveries) = 1
  /\ deliveries[1].pc = "done"
  /\ SaysSuccess(deliveries[1].response)
  /\ DirectionOf(deliveries[1].result) = Word("outbound")
  /\ Prop(MessageOf(deliveries[1].result), "provider") = Word("evolution")
  /\ PhoneOf(deliveries[1].result, "from") = Str(BusinessNumber)
  /\ Len(database.contacts) = 1
  /\ database.contacts[1].col_0 = Str(CustomerNumber)

----------------------------------------------------------------------------
(* What the Meta adapter reads of a payload, under SpecAdapters *)

\* an array cut down to its first element
FirstOnly(x) == IF IsArray(x) /\ Len(x.a) > 1 THEN Arr(<<x.a[1]>>) ELSE x

\* entry[0].changes[0] of a payload the Meta adapter handles, with the
\* messages and statuses arrays of its value cut down to their first element
FirstChangeOf(payload) ==
  LET change == OptIdx(OptProp(Idx(Prop(payload, "entry"), 0), "changes"), 0)
      value == OptProp(change, "value")
  IN IF IsThrow(change) \/ IsThrow(value) \/ ~IsObject(value) THEN change
     ELSE Obj([change.o EXCEPT !.value =
                 Obj([k \in DOMAIN value.o |->
                        IF k \in {"messages", "statuses"} THEN FirstOnly(value.o[k])
                        ELSE value.o[k]])])

\* entry[0].id of a payload the Meta adapter handles
FirstEntryIdOf(payload) == OptProp(Idx(Prop(payload, "entry"), 0), "id")

\* a result without what differs from call to call: the message without its
\* id and its rawPayload
Outcome(r) ==
  IF Succeeded(r) /\ IsObject(MessageOf(r))
  THEN [k \in DOMAIN MessageOf(r).o \ {"id", "rawPayload"} |-> MessageOf(r).o[k]]
  ELSE r

\* the Meta adapter gives, for the other payload, what the last call gave
SameAsFor(other) ==
  /\ op = "validate" => MetaValidate(other) = ret
  /\ op = "normalize" =>
       Outcome(MetaNormalize(other, CHOOSE id \in GeneratedIds : TRUE)) = Outcome(ret)

\* the first change carries no message and no status: each of the two arrays
\* is absent or empty
FirstChangeHasNone ==
  \A k \in {"messages", "statuses"} :
     \/ IsNullish(OptProp(FirstValue, k))
     \/ OptProp(FirstValue, k) = Arr(<<>>)

\* C30 as stated: validate and normalize of the Meta adapter depend only on
\* entry[0].changes[0] and on the first element of its messages and statuses
\* arrays: two payloads the adapter handles that agree on these give the same
\* validate result, the same outcome of normalize and the same message apart
\* from id and rawPayload; and a payload whose first change carries no message
\* and no status is reported as MISSING_REQUIRED_FIELD.
C30_MetaReadsFirstChangeOnly ==
  (op \in {"validate", "normalize"} /\ target = "MetaAdapter"
     /\ Handles("MetaAdapter", arg)) =>
    /\ \A other \in MetaPayloads :
         (Handles("MetaAdapter", other) /\ FirstChangeOf(other) = FirstChangeOf(arg))
           => SameAsFor(other)
    /\ (op = "normalize" /\ FirstChangeHasNone)
         => FailedWith(ret, "MISSING_REQUIRED_FIELD")

\* C30, amended: validate and normalize of the Meta adapter depend only on
\* entry[0].id, on entry[0].changes[0] and on the first element of its
\* messages and statuses arrays (the id of the first entry becomes
\* metadata.businessAccountId of a received message): two payloads the adapter
\* handles that agree on these give the same validate result, the same outcome
\* of normalize and the same message apart from id and rawPayload; and a
\* payload whose first change carries no message and no status is reported as
\* MISSING_REQUIRED_FIELD.
C30_MetaReadsFirstEntryIdAndChange ==
  (op \in {"validate", "normalize"} /\ target = "MetaAdapter"
     /\ Handles("MetaAdapter", arg)) =>
    /\ \A other \in MetaPayloads :
         (/\ Handles("MetaAdapter", other)
          /\ FirstEntryIdOf(other) = FirstEntryIdOf(arg)
          /\ FirstChangeOf(other) = FirstChangeOf(arg))
           => SameAsFor(other)
    /\ (op = "normalize" /\ FirstChangeHasNone)
         => FailedWith(ret, "MISSING_REQUIRED_FIELD")

\* normalize of a payload whose first change is empty and whose second change
\* carries a message: no message comes out of it
C30_Witness ==
  /\ op = "normalize" /\ target = "MetaAdapter"
  /\ Handles("MetaAdapter", arg)
  /\ FirstChangeHasNone
  /\ NonEmptyArray(OptProp(OptProp(OptIdx(OptProp(Idx(Prop(arg, "entry"), 0), "changes"),
                                          1), "value"), "messages"))
  /\ \E other \in MetaPayloads \ {arg} :
        Handles("MetaAdapter", other) /\ FirstChangeOf(other) = FirstChangeOf(arg)
  /\ FailedWith(ret, "MISSING_REQUIRED_FIELD")

====
